---------------------------- MODULE Spec2Model ----------------------------
(***************************************************************************)
(* Dynamic workflow forms: the Form Data Store (DataManager), the          *)
(* Array/Union Item Manager (ArrayManager), the workflow page              *)
(* (DynamicWorkflowManager) and the Reference Resolver                     *)
(* (ImprovedDynamicFormGenerator.resolveReference).                        *)
(***************************************************************************)
EXTENDS Integers, Sequences, FiniteSets, TLC

VARIABLES
    formData,       \* DataManager.formData: schema name -> tree
    schemaCache,    \* DynamicWorkflowManager.schemaCache (shared with ArrayManager)
    fieldCache,     \* DynamicWorkflowManager.fieldCache (shared with ArrayManager)
    currentSchema,  \* DynamicWorkflowManager.currentSchema ("" is null)
    formHtml,       \* the rendered root form: [schema, fields] (dynamicFormHtml)
    blocks,         \* rendered array item blocks, in creation order
    rootSel,        \* union field -> variant whose fields are in union-fields-<field>
    timers,         \* pending setTimeout callbacks, in the order they will fire
    nextUid,        \* number of item blocks rendered so far (identity of a block)
    owner,          \* ghost: per schema and array key, the block each stored entry was made for
    last,           \* ghost: the last operation and what it saw before acting
    scen,           \* ghost: progress through the stores / bike_stock / Electric scenario
    uni,            \* ghost: progress through select A / edit A / select B on one union field
    pristine,       \* ghost: a form was loaded and the user has not acted since
    selects,        \* ghost: number of selectSchema calls so far
    acts,           \* ghost: number of actions the user has taken so far
    exported,       \* the last result of DataManager.exportData, kept by the caller
    rawSchema,      \* ImprovedDynamicFormGenerator.rawSchema
    referenceCache, \* ImprovedDynamicFormGenerator.referenceCache
    calls,          \* ghost: the results of the resolveReference calls on the current document
    keyed,          \* ghost: the field definitions cached so far, each with the key it was cached under
    availableWorkflows,  \* DynamicWorkflowManager.availableWorkflows
    schemasLoaded,       \* DynamicWorkflowManager.schemasLoaded
    isLoadingWorkflows,  \* DynamicWorkflowManager._isLoadingWorkflows
    loader,         \* the running fetchAvailableWorkflows call: where it is in its loop
    inflight,       \* the fetchSchema calls waiting for their response
    requests,       \* ghost: workflow name -> number of requests sent to the network
    loads,          \* ghost: the fetchAvailableWorkflows calls made: started, skipped, finished
    storage,        \* localStorage item 'dynamic_workflow_data' (none when absent)
    persist,        \* ghost: the last DataManager call: what it was given, returned or threw
    rendered,       \* the last model rendered: the render path, the model, the fragments emitted
    dynamicFormData,  \* promptEvaluationApp.dynamicFormData: form id -> recorded data
    submitted,      \* ghost: the last submitForm call: the form, its inputs, what was dispatched
    generated,      \* ghost: the last generateForm call: its input and what it returned or threw
    heap,           \* the objects and arrays of the page, by identity
    formRoots,      \* DataManager.formData read by identity: schema name -> its tree object
    heapLast,       \* ghost: the last operation on the heap and the items as they were before it
    pending,        \* the selectSchema calls waiting for the response to their schema request
    evaluation,     \* promptEvaluationApp: loadingSchema, schemaLoaded, schemaError, lastLoadedWorkflow
    schemaLoad      \* the loadDynamicSchema call: where it stands, the endpoints' answers so far

vars == <<formData, schemaCache, fieldCache, currentSchema, formHtml, blocks,
          rootSel, timers, nextUid, owner, last, scen, uni, pristine, selects,
          acts, exported, rawSchema, referenceCache, calls, keyed,
          availableWorkflows, schemasLoaded, isLoadingWorkflows, loader, inflight,
          requests, loads, storage, persist, rendered, dynamicFormData, submitted,
          generated, heap, formRoots, heapLast, pending,
          evaluation, schemaLoad>>

formVars == <<formData, schemaCache, fieldCache, currentSchema, formHtml,
              blocks, rootSel, timers, nextUid, owner, last, scen, uni, pristine,
              selects, acts, exported>>

refVars == <<rawSchema, referenceCache, calls>>

\* the state of the other components of the page
keyVars == <<keyed>>

fetchVars == <<availableWorkflows, schemasLoaded, isLoadingWorkflows, loader, inflight,
               requests, loads>>

storeVars == <<storage, persist>>

renderVars == <<rendered>>

submitVars == <<dynamicFormData, submitted>>

genVars == <<generated>>

heapVars == <<heap, formRoots, heapLast>>

switchVars == <<pending>>

evalVars == <<evaluation, schemaLoad>>

lateVars == <<genVars, heapVars, switchVars, evalVars>>

extVars == <<keyVars, fetchVars, storeVars, renderVars, submitVars, lateVars>>

(***************************************************************************)
(* Bounds of the model.                                                    *)
(***************************************************************************)
MaxBlocks == 3
MaxSelects == 1
MaxActions == 4
MaxCalls == 2

(***************************************************************************)
(* JavaScript values.  Every value carries its type tag, so that a string  *)
(* stored where an object is expected stays distinguishable.               *)
(***************************************************************************)
Undefined == [t |-> "undefined"]
Null == [t |-> "null"]
NaN == [t |-> "NaN"]
Str(s) == [t |-> "string", s |-> s]
Num(n) == [t |-> "number", n |-> n]
Obj(f) == [t |-> "object", f |-> f]
Arr(a) == [t |-> "array", a |-> a]

EmptyObj == <<>>

IsObj(v) == v.t = "object"
IsArr(v) == v.t = "array"

\* !v is false
Truthy(v) ==
    CASE v.t = "string" -> v.s # ""
      [] v.t = "number" -> v.n # 0
      [] v.t \in {"object", "array"} -> TRUE
      [] OTHER -> FALSE

\* typeof v === 'object'
TypeofObject(v) == v.t \in {"object", "array", "null"}

\* o[k]
Prop(o, k) == IF k \in DOMAIN o THEN o[k] ELSE Undefined

\* o[k] = v
Put(o, k, v) == [j \in DOMAIN o \cup {k} |-> IF j = k THEN v ELSE o[j]]

\* a[i], zero-based
ArrGet(a, i) == IF i < Len(a) THEN a[i + 1] ELSE Undefined

\* a[i] = v, zero-based: writing past the end leaves holes
ArrSet(a, i, v) ==
    [j \in 1..(IF i < Len(a) THEN Len(a) ELSE i + 1) |->
        IF j = i + 1 THEN v ELSE IF j <= Len(a) THEN a[j] ELSE Undefined]

\* a.splice(i, 1), zero-based: nothing is removed at or past the end
Splice(a, i) ==
    IF i < Len(a)
    THEN [j \in 1..(Len(a) - 1) |-> IF j <= i THEN a[j] ELSE a[j + 1]]
    ELSE a

(***************************************************************************)
(* DataManager: every operation maps the formData map to the map it leaves.*)
(* saveToStorage mirrors the map and changes nothing in memory.            *)
(***************************************************************************)
\* if (!this.formData[currentSchema]) this.formData[currentSchema] = {}
EnsureSchema(fd, s) == IF s \in DOMAIN fd THEN fd ELSE Put(fd, s, EmptyObj)

\* Object.assign(target, source) and { ...source }
Assign(target, source) ==
    [k \in DOMAIN target \cup DOMAIN source |->
        IF k \in DOMAIN source THEN source[k] ELSE target[k]]

\* { ...(schema.default_values || {}) }
DefaultsCopy(model) ==
    IF Truthy(model.default_values) THEN Assign(EmptyObj, model.default_values.f)
    ELSE EmptyObj

\* holder[p] = v in strict mode: a property of a primitive cannot be set (TypeError)
CanSetProp(holder) == IsObj(holder)

DM_initializeFormData(fd, s, model) ==
    LET fd1 == EnsureSchema(fd, s) IN
    IF Truthy(model.default_values)
    THEN Put(fd1, s, Assign(fd1[s], model.default_values.f))
    ELSE fd1

DM_updateFormData(fd, s, fieldName, value) ==
    LET fd1 == EnsureSchema(fd, s) IN Put(fd1, s, Put(fd1[s], fieldName, value))

DM_getFormDataForSchema(fd, s) == IF s \in DOMAIN fd THEN fd[s] ELSE EmptyObj

DM_resetFormData(fd, s) == IF s # "" THEN Put(fd, s, EmptyObj) ELSE fd

\* updateNestedObjectFieldData and updateUnionFieldData have the same body
DM_updateNestedObjectFieldData(fd, s, parentFieldName, propName, value) ==
    LET fd1 == EnsureSchema(fd, s)
        holder == IF Truthy(Prop(fd1[s], parentFieldName))
                  THEN fd1[s][parentFieldName] ELSE Obj(EmptyObj)
    IN  IF CanSetProp(holder)
        THEN Put(fd1, s, Put(fd1[s], parentFieldName, Obj(Put(holder.f, propName, value))))
        ELSE Put(fd1, s, Put(fd1[s], parentFieldName, holder))

DM_updateUnionFieldData(fd, s, parentFieldName, propName, value) ==
    DM_updateNestedObjectFieldData(fd, s, parentFieldName, propName, value)

DM_initializeUnionFormData(fd, s, fieldName, schema) ==
    LET fd1 == EnsureSchema(fd, s)
        cur == Prop(fd1[s], fieldName)
    IN  IF ~Truthy(cur) \/ ~TypeofObject(cur)
        THEN Put(fd1, s, Put(fd1[s], fieldName, Obj(DefaultsCopy(schema))))
        ELSE fd1

\* the array stored under fieldName, created empty when missing
EnsureArray(fd, s, fieldName) ==
    LET fd1 == EnsureSchema(fd, s) IN
    IF Truthy(Prop(fd1[s], fieldName)) THEN fd1
    ELSE Put(fd1, s, Put(fd1[s], fieldName, Arr(<<>>)))

\* the index addArrayItem returns
DM_addArrayItemIndex(fd, s, fieldName) == Len(EnsureArray(fd, s, fieldName)[s][fieldName].a)

DM_addArrayItem(fd, s, fieldName, itemData) ==
    LET fd1 == EnsureArray(fd, s, fieldName) IN
    Put(fd1, s, Put(fd1[s], fieldName, Arr(Append(fd1[s][fieldName].a, itemData))))

\* the guard shared by the array item updates: the item is created as {} when missing
EnsureItem(fd, s, fieldName, itemIndex) ==
    LET fd1 == EnsureArray(fd, s, fieldName)
        a == fd1[s][fieldName].a
    IN  IF Truthy(ArrGet(a, itemIndex)) THEN fd1
        ELSE Put(fd1, s, Put(fd1[s], fieldName, Arr(ArrSet(a, itemIndex, Obj(EmptyObj)))))

SetItem(fd, s, fieldName, itemIndex, item) ==
    Put(fd, s, Put(fd[s], fieldName, Arr(ArrSet(fd[s][fieldName].a, itemIndex, item))))

DM_updateArrayItemData(fd, s, fieldName, itemIndex, propName, value) ==
    LET fd1 == EnsureItem(fd, s, fieldName, itemIndex)
        item == ArrGet(fd1[s][fieldName].a, itemIndex)
    IN  IF propName = "" THEN SetItem(fd1, s, fieldName, itemIndex, value)
        ELSE SetItem(fd1, s, fieldName, itemIndex, Obj(Put(item.f, propName, value)))

DM_removeArrayItem(fd, s, fieldName, itemIndex) ==
    IF s \in DOMAIN fd /\ Truthy(Prop(fd[s], fieldName))
    THEN Put(fd, s, Put(fd[s], fieldName, Arr(Splice(fd[s][fieldName].a, itemIndex))))
    ELSE fd

\* updateArrayItemNestedObjectFieldData and updateArrayItemUnionFieldData have the same body
DM_updateArrayItemNestedObjectFieldData(fd, s, fieldName, itemIndex, parentPropName, nestedPropName, value) ==
    LET fd1 == EnsureItem(fd, s, fieldName, itemIndex)
        item == ArrGet(fd1[s][fieldName].a, itemIndex)
        holder == IF Truthy(Prop(item.f, parentPropName))
                  THEN item.f[parentPropName] ELSE Obj(EmptyObj)
    IN  IF CanSetProp(holder)
        THEN SetItem(fd1, s, fieldName, itemIndex,
                     Obj(Put(item.f, parentPropName, Obj(Put(holder.f, nestedPropName, value)))))
        ELSE SetItem(fd1, s, fieldName, itemIndex, Obj(Put(item.f, parentPropName, holder)))

DM_updateArrayItemUnionFieldData(fd, s, fieldName, itemIndex, propName, schemaPropName, value) ==
    DM_updateArrayItemNestedObjectFieldData(fd, s, fieldName, itemIndex, propName, schemaPropName, value)

\* a variant that initializes only a missing value: what the option card wrote stays
InitializeArrayItemUnionIfMissing(fd, s, fieldName, itemIndex, propName, schema) ==
    IF Truthy(Prop(ArrGet(EnsureItem(fd, s, fieldName, itemIndex)[s][fieldName].a,
                          itemIndex).f, propName))
    THEN EnsureItem(fd, s, fieldName, itemIndex)
    ELSE SetItem(EnsureItem(fd, s, fieldName, itemIndex), s, fieldName, itemIndex,
                 Obj(Put(ArrGet(EnsureItem(fd, s, fieldName, itemIndex)[s][fieldName].a,
                                itemIndex).f,
                         propName, Obj(DefaultsCopy(schema)))))

DM_initializeArrayItemUnionFormData(fd, s, fieldName, itemIndex, propName, schema) ==
    LET fd1 == EnsureItem(fd, s, fieldName, itemIndex)
        item == ArrGet(fd1[s][fieldName].a, itemIndex)
        cur == Prop(item.f, propName)
    IN  IF ~Truthy(cur) \/ ~TypeofObject(cur)
        THEN SetItem(fd1, s, fieldName, itemIndex,
                     Obj(Put(item.f, propName, Obj(DefaultsCopy(schema)))))
        ELSE fd1

(***************************************************************************)
(* Schema documents served by the backend.  A $ref is kept as its path     *)
(* prefix and its last segment; ref.split('/').pop() is the last segment.  *)
(***************************************************************************)
Ref(prefix, name) == [prefix |-> prefix, name |-> name]
NoRef == Ref("", "")
HasRef(r) == r # NoRef
RefLastSegment(r) == r.name

P(name, type, ui) ==
    [name |-> name, type |-> type, ui |-> ui, ref |-> NoRef, items |-> NoRef,
     anyOf |-> <<>>, union_options |-> <<>>]

RefProp(name, target) == [P(name, "object", "") EXCEPT !.ref = Ref("#/$defs/", target)]
ArrayProp(name, target) ==
    [P(name, "array", "array") EXCEPT !.items = Ref("#/$defs/", target)]
AnyOfProp(name, targets) ==
    [P(name, "", "") EXCEPT
        !.anyOf = [i \in DOMAIN targets |-> Ref("#/$defs/", targets[i])]]
UnionSelectProp(name, options) ==
    [P(name, "", "union_select") EXCEPT
        !.union_options = [i \in DOMAIN options |->
            [value |-> options[i][1], schema_ref |-> Ref("#/$defs/", options[i][2])]]]

Model(properties, defaults) ==
    [properties |-> properties, default_values |-> defaults, definitions |-> EmptyObj]

\* bike_stock: RootModel.stores of Store, Store.bike_stock of BikeStock,
\* BikeStock.bike a union of Mountain, Road and Electric
BikeStockDoc ==
    [workflow_name |-> "bike_stock",
     schemas |->
       [RootModel |-> Model(<<ArrayProp("stores", "Store")>>, Undefined),
        Store |-> Model(<<ArrayProp("bike_stock", "BikeStock")>>, Undefined),
        BikeStock |-> Model(<<AnyOfProp("bike", <<"Mountain", "Road", "Electric">>),
                              P("quantity", "integer", "")>>,
                            Obj([quantity |-> Num(0)])),
        Mountain |-> Model(<<P("gears", "integer", "")>>, Obj([gears |-> Num(21)])),
        Road |-> Model(<<P("tyre", "string", "")>>, Obj([tyre |-> Str("slick")])),
        Electric |-> Model(<<P("battery", "number", "")>>,
                           Obj([battery |-> Num(500)]))]]

\* bike_sales: declared defaults, an array of Sale with a nested object, and three
\* references the document does not define: the items of extras, owner, the plan "ghost"
BikeSalesDoc ==
    [workflow_name |-> "bike_sales",
     schemas |->
       [RootModel |-> Model(<<P("region", "string", "text_input"),
                              ArrayProp("sales", "Sale"),
                              ArrayProp("extras", "Missing"),
                              RefProp("owner", "Person"),
                              RefProp("shop", "Shop"),
                              UnionSelectProp("plan", <<<<"basic", "Basic">>,
                                                        <<"pro", "Pro">>,
                                                        <<"ghost", "Missing">> >>)>>,
                            Obj([region |-> Str("EU")])),
        Sale |-> Model(<<P("amount", "number", ""),
                         RefProp("buyer", "Buyer"),
                         RefProp("agent", "Person")>>,
                       Obj([amount |-> Num(0)])),
        Buyer |-> Model(<<P("name", "string", "")>>, Undefined),
        Shop |-> Model(<<P("city", "string", "")>>, Undefined),
        Basic |-> Model(<<P("seats", "integer", "")>>, Obj([seats |-> Num(1)])),
        Pro |-> Model(<<P("sla", "string", "")>>, Obj([sla |-> Str("gold")]))]]

Workflows == {"bike_stock", "bike_sales"}

\* what GET {base}/schema/{workflowName}/ returns when it succeeds
Backend(workflowName) ==
    IF workflowName = "bike_stock" THEN BikeStockDoc ELSE BikeSalesDoc

\* String.prototype.toLowerCase on the model names used as union values
ToLowerCase(name) ==
    CASE name = "Mountain" -> "mountain"
      [] name = "Road" -> "road"
      [] name = "Electric" -> "electric"
      [] name = "Basic" -> "basic"
      [] name = "Pro" -> "pro"
      [] name = "Missing" -> "missing"
      [] OTHER -> name

\* allSchemas[schemaName] || allSchemas.RootModel?.definitions?.[schemaName]
\*   || this.schemaCache[currentSchema]?.schemas?.RootModel?.definitions?.[schemaName]
LookupSchema(allSchemas, cache, s, schemaName) ==
    IF schemaName \in DOMAIN allSchemas THEN Obj(allSchemas[schemaName])
    ELSE IF "RootModel" \in DOMAIN allSchemas
            /\ schemaName \in DOMAIN allSchemas["RootModel"].definitions
         THEN Obj(allSchemas["RootModel"].definitions[schemaName])
    ELSE IF s \in DOMAIN cache /\ "RootModel" \in DOMAIN cache[s].schemas
            /\ schemaName \in DOMAIN cache[s].schemas["RootModel"].definitions
         THEN Obj(cache[s].schemas["RootModel"].definitions[schemaName])
    ELSE Undefined

(***************************************************************************)
(* The identifiers the renderers build: cache keys and element ids.        *)
(***************************************************************************)
ArrayFieldKey(s, fieldName) == s \o "_" \o fieldName
RootUnionKey(s, fieldName) == s \o "_" \o fieldName \o "_union"
ItemUnionKey(s, fieldName, itemIndex, propName) ==
    s \o "_" \o fieldName \o "_" \o ToString(itemIndex) \o "_" \o propName \o "_union"
NestedFieldId(parentFieldName, parentIndex, fieldName) ==
    parentFieldName \o "-" \o ToString(parentIndex) \o "-" \o fieldName
ItemId(fieldName, itemIndex) == fieldName \o "-item-" \o ToString(itemIndex)
ContainerId(fieldName) == "array-" \o fieldName
UnionFieldsId(fieldName, itemIndex, propName) ==
    "union-fields-" \o fieldName \o "-" \o ToString(itemIndex) \o "-" \o propName

(***************************************************************************)
(* Which control a property is rendered as.                                *)
(***************************************************************************)
\* DynamicWorkflowManager.generateFieldHtml
RootKind(field) ==
    IF HasRef(field.ref) THEN "nested"
    ELSE CASE field.ui = "text_input" -> "text"
           [] field.ui = "number_input" -> "number"
           [] field.ui = "array" -> "array"
           [] field.ui = "union_select" -> "union"
           [] OTHER -> "text"

\* ArrayManager.generateArrayItemFieldHtml
ItemKind(prop) ==
    IF HasRef(prop.ref) THEN "nested"
    ELSE IF prop.anyOf # <<>> \/ prop.union_options # <<>> \/ prop.ui = "union_select"
         THEN "union"
    ELSE IF prop.type = "array" \/ prop.ui = "array" THEN "array"
    ELSE IF prop.type \in {"number", "integer"} THEN "number"
    ELSE "text"

\* the inputs of a nested object and of a union variant: parseFloat for number and integer
LeafKind(prop) == IF prop.type \in {"number", "integer"} THEN "number" ELSE "text"

\* ArrayManager.generateArrayItemUnionField: union_options, or derived from anyOf
ItemUnionOptions(prop) ==
    IF prop.union_options # <<>> THEN prop.union_options
    ELSE [i \in DOMAIN prop.anyOf |->
            [value |-> ToLowerCase(RefLastSegment(prop.anyOf[i])),
             schema_ref |-> prop.anyOf[i]]]

\* unionOptions.find(option => option.value === selectedValue)
FindOption(options, value) ==
    IF \E i \in DOMAIN options : options[i].value = value
    THEN LET i == CHOOSE i \in DOMAIN options :
                    /\ options[i].value = value
                    /\ \A j \in 1..(i - 1) : options[j].value # value
         IN  Obj(options[i])
    ELSE Undefined

(***************************************************************************)
(* The document: the root form, its array containers, and the item blocks  *)
(* appended to them.  A block keeps what generateArrayItemHtml wrote into  *)
(* its handlers: the schema name, the field name and the item index.       *)
(***************************************************************************)
NoForm == [doc |-> "", key |-> ""]

RECURSIVE Flat(_)
Flat(ss) == IF ss = <<>> THEN <<>> ELSE Head(ss) \o Flat(Tail(ss))

BlockByUid(bs, u) == CHOOSE b \in {bs[i] : i \in DOMAIN bs} : b.uid = u

ModelOfBlock(cache, b) == LookupSchema(cache[b.s].schemas, cache, b.s, b.model).f

RootProps(fh, cache) ==
    IF fh.doc = "" THEN <<>> ELSE cache[fh.doc].schemas["RootModel"].properties

\* the field names of the array containers an element holds (0 is the root form)
ContainerNames(fh, bs, cache, h) ==
    IF h = 0
    THEN LET ps == SelectSeq(RootProps(fh, cache), LAMBDA f : RootKind(f) = "array")
         IN  [i \in DOMAIN ps |-> ps[i].name]
    ELSE LET b == BlockByUid(bs, h)
             ps == SelectSeq(ModelOfBlock(cache, b).properties,
                             LAMBDA f : ItemKind(f) = "array")
         IN  [i \in DOMAIN ps |-> NestedFieldId(b.field, b.idx, ps[i].name)]

\* the blocks below an element, in document order
RECURSIVE Under(_, _, _, _)
Under(fh, bs, cache, h) ==
    LET names == ContainerNames(fh, bs, cache, h) IN
    Flat([i \in DOMAIN names |->
        LET inC == SelectSeq(bs, LAMBDA b : b.host = h /\ b.field = names[i]) IN
        Flat([j \in DOMAIN inC |-> <<inC[j]>> \o Under(fh, bs, cache, inC[j].uid)])])

DocOrder(fh, bs, cache) == Under(fh, bs, cache, 0)

\* the blocks inside the container of fieldName that element h holds
BlocksIn(bs, h, fieldName) == SelectSeq(bs, LAMBDA b : b.host = h /\ b.field = fieldName)

\* document.getElementById('array-' + fieldName): the element holding the first
\* container with that id, -1 when there is none
ContainerHost(fh, bs, cache, fieldName) ==
    LET order == DocOrder(fh, bs, cache)
        hosts == <<0>> \o [i \in DOMAIN order |-> order[i].uid]
        has(h) == LET names == ContainerNames(fh, bs, cache, h) IN
                  \E i \in DOMAIN names : ContainerId(names[i]) = ContainerId(fieldName)
    IN  IF \E i \in DOMAIN hosts : has(hosts[i])
        THEN hosts[CHOOSE i \in DOMAIN hosts :
                      has(hosts[i]) /\ \A j \in 1..(i - 1) : ~has(hosts[j])]
        ELSE -1

\* document.getElementById(itemId): the first block with that id, 0 when there is none
BlockById(fh, bs, cache, itemId) ==
    LET order == DocOrder(fh, bs, cache)
        is(i) == ItemId(order[i].field, order[i].idx) = itemId
    IN  IF \E i \in DOMAIN order : is(i)
        THEN order[CHOOSE i \in DOMAIN order : is(i) /\ \A j \in 1..(i - 1) : ~is(j)].uid
        ELSE 0

\* element.remove(): the block goes with everything rendered inside it
RemoveBlock(fh, bs, cache, u) ==
    IF u = 0 THEN bs
    ELSE LET sub == Under(fh, bs, cache, u)
             gone == {u} \cup {sub[i].uid : i \in DOMAIN sub}
         IN  SelectSeq(bs, LAMBDA b : b.uid \notin gone)

(***************************************************************************)
(* Field Cache writes made while rendering.                                *)
(***************************************************************************)
\* generateNestedArrayField and generateArrayItemUnionField, over the item's properties
RECURSIVE CacheItemFields(_, _, _, _, _)
CacheItemFields(fc, s, fieldName, itemIndex, props) ==
    IF props = <<>> THEN fc
    ELSE LET prop == Head(props)
             fc1 == CASE ItemKind(prop) = "union" ->
                           Put(fc, ItemUnionKey(s, fieldName, itemIndex, prop.name),
                               [unionOptions |-> ItemUnionOptions(prop), allSchemas |-> s])
                      [] ItemKind(prop) = "array" ->
                           Put(fc, ArrayFieldKey(s, NestedFieldId(fieldName, itemIndex, prop.name)),
                               prop)
                      [] OTHER -> fc
         IN  CacheItemFields(fc1, s, fieldName, itemIndex, Tail(props))

\* ArrayManager.generateArrayField and generateUnionSelectField, over the root properties
RECURSIVE CacheRootFields(_, _, _, _)
CacheRootFields(fc, key, doc, props) ==
    IF props = <<>> THEN fc
    ELSE LET field == Head(props)
             fc1 == CASE RootKind(field) = "array" ->
                           Put(fc, ArrayFieldKey(key, field.name), field)
                      [] RootKind(field) = "union" ->
                           Put(fc, RootUnionKey(key, field.name),
                               [unionOptions |-> field.union_options, allSchemas |-> doc])
                      [] OTHER -> fc
         IN  CacheRootFields(fc1, key, doc, Tail(props))

(***************************************************************************)
(* ArrayManager.addArrayItem, from the container lookup on.  The ghost     *)
(* owner follows the same store operations, entry for entry.               *)
(***************************************************************************)
OwnerMark(u) == Obj([uid |-> Num(u)])

\* schema.schemas[schemaName] || schema.schemas.RootModel?.definitions?.[schemaName]
LookupItemSchema(allSchemas, schemaName) ==
    LookupSchema(allSchemas, <<>>, "", schemaName)

\* the store after addArrayItem's first write: the placeholder {} is pushed
AddPlaceholder(fd, s, fieldName) == DM_addArrayItem(fd, s, fieldName, Obj(EmptyObj))

AddArrayItem(fd, bs, fc, own, fh, cache, uid, s, fieldName, field) ==
    LET host == ContainerHost(fh, bs, cache, fieldName)
        itemIndex == DM_addArrayItemIndex(fd, s, fieldName)
        fd1 == AddPlaceholder(fd, s, fieldName)
        own1 == AddPlaceholder(own, s, fieldName)
        schemaName == RefLastSegment(field.items)
        itemSchema == LookupItemSchema(cache[s].schemas, schemaName)
        stay == [fd |-> fd, bs |-> bs, fc |-> fc, own |-> own, uid |-> uid]
    IN  IF host = -1 THEN stay @@ [outcome |-> "nocontainer", host |-> host]
        ELSE IF ~HasRef(field.items) \/ ~Truthy(itemSchema)
        THEN [stay EXCEPT !.fd = fd1, !.own = own1]
             @@ [outcome |-> "unresolved", host |-> host]
        ELSE [fd |-> DM_updateArrayItemData(fd1, s, fieldName, itemIndex, "",
                                            Obj(DefaultsCopy(itemSchema.f))),
              bs |-> Append(bs, [uid |-> uid + 1, s |-> s, field |-> fieldName,
                                 idx |-> itemIndex, host |-> host,
                                 model |-> schemaName, sel |-> EmptyObj]),
              fc |-> CacheItemFields(fc, s, fieldName, itemIndex, itemSchema.f.properties),
              own |-> DM_updateArrayItemData(own1, s, fieldName, itemIndex, "",
                                             OwnerMark(uid + 1)),
              uid |-> uid + 1,
              outcome |-> "added", host |-> host]

\* the length of the array stored under a key, 0 when nothing is stored
StoredLen(fd, s, fieldName) ==
    IF s \in DOMAIN fd /\ fieldName \in DOMAIN fd[s] /\ IsArr(fd[s][fieldName])
    THEN Len(fd[s][fieldName].a) ELSE 0

StoredArr(fd, s, fieldName) ==
    IF s \in DOMAIN fd /\ fieldName \in DOMAIN fd[s] /\ IsArr(fd[s][fieldName])
    THEN fd[s][fieldName].a ELSE <<>>

(***************************************************************************)
(* Ghost record of the last operation: what was asked, what it rendered    *)
(* and what the store and the container held before it acted.              *)
(***************************************************************************)
NoLast ==
    [op |-> "none", s |-> "", field |-> "", idx |-> 0, uid |-> 0, host |-> 0,
     outcome |-> "", emitted |-> "", prop |-> "", sub |-> "", val |-> Undefined,
     preLen |-> 0, preCount |-> 0, preOwn |-> <<>>]

LastOp(op, s, fieldName, idx, uid, host, outcome, emitted, prop, sub, val) ==
    [op |-> op, s |-> s, field |-> fieldName, idx |-> idx, uid |-> uid, host |-> host,
     outcome |-> outcome, emitted |-> emitted, prop |-> prop, sub |-> sub, val |-> val,
     preLen |-> StoredLen(formData, s, fieldName),
     preCount |-> Len(BlocksIn(blocks, host, fieldName)),
     preOwn |-> StoredArr(owner, s, fieldName)]

\* the scenario: one store, one bike-stock item inside it, Electric selected there
ScenAfterAdd(s, fieldName) ==
    IF s = "bike_stock" /\ fieldName = "stores" /\ scen = 0 THEN 1
    ELSE IF s = "bike_stock" /\ fieldName = NestedFieldId("stores", 0, "bike_stock") /\ scen = 1
         THEN 2
    ELSE -1

ScenAfterSelect(s, fieldName, idx, prop, value) ==
    IF /\ s = "bike_stock" /\ fieldName = NestedFieldId("stores", 0, "bike_stock")
       /\ idx = 0 /\ prop = "bike" /\ value = "electric" /\ scen = 2
    THEN 3 ELSE -1

\* the union field a control addresses: of the root form, or of the item at idx
Cell(root, s, fieldName, idx, prop) ==
    [root |-> root, s |-> s, field |-> fieldName, idx |-> idx, prop |-> prop]

NoUni == [stage |-> 0, cell |-> Cell(TRUE, "", "", 0, ""), variant |-> "", from |-> ""]

\* stage 1: a variant was selected and resolved; stage 2: one of its fields was then
\* edited; stage 3: a different variant was then selected and resolved
UniAfterSelect(cell, variant, resolved) ==
    IF ~resolved THEN NoUni
    ELSE IF uni.stage = 2 /\ uni.cell = cell /\ uni.variant # variant
         THEN [stage |-> 3, cell |-> cell, variant |-> variant, from |-> uni.variant]
    ELSE [stage |-> 1, cell |-> cell, variant |-> variant, from |-> ""]

UniAfterEdit(cell, variant) ==
    IF uni.stage \in {1, 2} /\ uni.cell = cell /\ uni.variant = variant
    THEN [uni EXCEPT !.stage = 2]
    ELSE NoUni

\* one more action of the user
Acted ==
    /\ acts < MaxActions
    /\ acts' = acts + 1

Note(l, sc, u, pr) ==
    /\ last' = l
    /\ scen' = sc
    /\ uni' = u
    /\ pristine' = pr

(***************************************************************************)
(* The initial state: the page has constructed its managers.               *)
(***************************************************************************)
NoExport == [outcome |-> "none", s |-> "", content |-> Undefined, tree |-> EmptyObj]

FormInit ==
    /\ formData = <<>>
    /\ schemaCache = <<>>
    /\ fieldCache = <<>>
    /\ currentSchema = ""
    /\ formHtml = NoForm
    /\ blocks = <<>>
    /\ rootSel = <<>>
    /\ timers = <<>>
    /\ nextUid = 0
    /\ owner = <<>>
    /\ last = NoLast
    /\ scen = -1
    /\ uni = NoUni
    /\ pristine = FALSE
    /\ selects = 0
    /\ acts = 0
    /\ exported = NoExport

(***************************************************************************)
(* DynamicWorkflowManager.selectSchema: fetchSchema, loadSchemaForm, then  *)
(* resetFormData.  ok is the outcome of the request when the schema is not *)
(* cached.  Assigning dynamicFormHtml replaces the rendered form.  The     *)
(* timer resetFormData sets only blanks input elements.                    *)
(***************************************************************************)
\* DynamicWorkflowManager.autoAddFirstArrayItems, deferred by loadSchemaForm
AutoAddTimer(w) == [kind |-> "autoAddFirst", root |-> w, s |-> "", field |-> ""]

\* loadSchemaForm: initializeFormData(rootModel), then selectSchema: resetFormData()
StoreAfterLoad(fd, s, rootModel) == DM_resetFormData(DM_initializeFormData(fd, s, rootModel), s)

\* loadSchemaForm(w) from the response on, then resetFormData(): the form of w is
\* rendered and the store is written under key, which is currentSchema at that moment
LoadSchemaFormUnder(w, key, cache) ==
    /\ schemaCache' = cache
    /\ formHtml' = [doc |-> w, key |-> key]
    /\ fieldCache' = CacheRootFields(fieldCache, key, w,
                                     cache[w].schemas["RootModel"].properties)
    /\ formData' = StoreAfterLoad(formData, key, cache[w].schemas["RootModel"])
    /\ owner' = DM_resetFormData(EnsureSchema(owner, key), key)
    /\ timers' = Append(timers, AutoAddTimer(w))
    /\ Note(LastOp("select", w, "", 0, 0, 0, "loaded", "form", "", "", Undefined),
            IF w = "bike_stock" /\ key = w THEN 0 ELSE -1, NoUni, TRUE)

LoadSchemaForm(w, cache) == LoadSchemaFormUnder(w, w, cache)

SelectSchema(w, ok) ==
    /\ selects < MaxSelects
    /\ selects' = selects + 1
    /\ currentSchema' = w
    /\ blocks' = <<>>
    /\ rootSel' = <<>>
    /\ UNCHANGED <<nextUid, acts, exported>>
    /\ IF w \in DOMAIN schemaCache THEN LoadSchemaForm(w, schemaCache)
       ELSE IF ok THEN LoadSchemaForm(w, Put(schemaCache, w, Backend(w)))
       ELSE /\ formHtml' = NoForm
            /\ formData' = DM_resetFormData(formData, w)
            /\ owner' = DM_resetFormData(owner, w)
            /\ UNCHANGED <<schemaCache, fieldCache, timers>>
            /\ Note(LastOp("select", w, "", 0, 0, 0, "failed", "error", "", "", Undefined),
                    -1, NoUni, FALSE)

(***************************************************************************)
(* ArrayManager.addArrayItemByName / addNestedArrayItem: the cached field  *)
(* definition, then addArrayItem.                                          *)
(***************************************************************************)
AddCommit(r, s, fieldName, op) ==
    /\ formData' = r.fd
    /\ blocks' = r.bs
    /\ fieldCache' = r.fc
    /\ owner' = r.own
    /\ nextUid' = r.uid
    /\ Note(LastOp(op, s, fieldName, DM_addArrayItemIndex(formData, s, fieldName),
                   r.uid, r.host, r.outcome,
                   IF r.outcome = "added" THEN "block" ELSE "none", "", "", Undefined),
            IF r.outcome = "nocontainer" THEN scen ELSE ScenAfterAdd(s, fieldName),
            NoUni, pristine /\ op = "autoadd")

AddByKey(s, fieldName, op) ==
    IF ArrayFieldKey(s, fieldName) \notin DOMAIN fieldCache \/ s \notin DOMAIN schemaCache
    THEN /\ UNCHANGED <<formData, blocks, fieldCache, owner, nextUid>>
         /\ Note(LastOp(op, s, fieldName, 0, 0, 0, "nofield", "none", "", "", Undefined),
                 scen, NoUni, pristine /\ op = "autoadd")
    ELSE AddCommit(AddArrayItem(formData, blocks, fieldCache, owner, formHtml, schemaCache,
                               nextUid, s, fieldName,
                               fieldCache[ArrayFieldKey(s, fieldName)]), s, fieldName, op)

\* the timers of the same delay fire in the order they were set
FirstOfKind(i) == \A j \in 1..(i - 1) : timers[j].kind # timers[i].kind

RemoveAt(seq, i) == [j \in 1..(Len(seq) - 1) |-> IF j < i THEN seq[j] ELSE seq[j + 1]]

\* the timers ArrayManager.autoAddFirstArrayItems sets: one per array field of the root
\* model (root: the schema whose load scheduled them; s: currentSchema when they were set)
AddByNameTimers(s, root, rootModel) ==
    LET props == SelectSeq(rootModel.properties, LAMBDA f : f.type = "array" /\ f.ui = "array")
    IN  [j \in DOMAIN props |->
            [kind |-> "addByName", root |-> root, s |-> s, field |-> props[j].name]]

\* the callback loadSchemaForm deferred
FireAutoAddFirst ==
    \E i \in DOMAIN timers :
        /\ timers[i].kind = "autoAddFirst"
        /\ FirstOfKind(i)
        /\ timers' = RemoveAt(timers, i) \o
                     AddByNameTimers(currentSchema, timers[i].root,
                                     schemaCache[timers[i].root].schemas["RootModel"])
        /\ Note(LastOp("timer", currentSchema, "", 0, 0, 0, "", "none", "", "", Undefined),
                scen, uni, pristine)
        /\ UNCHANGED <<formData, schemaCache, fieldCache, currentSchema, formHtml, blocks,
                       rootSel, nextUid, owner, selects, acts, exported>>

\* the callback autoAddFirstArrayItems deferred: addArrayItemByName
FireAddByName ==
    \E i \in DOMAIN timers :
        /\ timers[i].kind = "addByName"
        /\ FirstOfKind(i)
        /\ timers' = RemoveAt(timers, i)
        /\ AddByKey(timers[i].s, timers[i].field, "autoadd")
        /\ UNCHANGED <<schemaCache, currentSchema, formHtml, rootSel, selects, acts,
                       exported>>

\* the user clicks the + of a rendered array container (0: of the root form)
ClickAdd ==
    \E h \in {0} \cup {blocks[i].uid : i \in DOMAIN blocks} :
    \E n \in DOMAIN ContainerNames(formHtml, blocks, schemaCache, h) :
        /\ Acted
        /\ nextUid < MaxBlocks
        /\ StoredLen(formData, IF h = 0 THEN formHtml.key ELSE BlockByUid(blocks, h).s,
                     ContainerNames(formHtml, blocks, schemaCache, h)[n]) < MaxBlocks
        /\ AddByKey(IF h = 0 THEN formHtml.key ELSE BlockByUid(blocks, h).s,
                    ContainerNames(formHtml, blocks, schemaCache, h)[n], "add")
        /\ UNCHANGED <<schemaCache, currentSchema, formHtml, rootSel, timers, selects,
                       exported>>

(***************************************************************************)
(* ArrayManager.removeArrayItem, fired from the remove control of a block. *)
(***************************************************************************)
ClickRemove ==
    \E i \in DOMAIN blocks :
        /\ Acted
        /\ blocks' = RemoveBlock(formHtml, blocks, schemaCache,
                                 BlockById(formHtml, blocks, schemaCache,
                                           ItemId(blocks[i].field, blocks[i].idx)))
        /\ formData' = DM_removeArrayItem(formData, blocks[i].s, blocks[i].field, blocks[i].idx)
        /\ owner' = DM_removeArrayItem(owner, blocks[i].s, blocks[i].field, blocks[i].idx)
        /\ Note(LastOp("remove", blocks[i].s, blocks[i].field, blocks[i].idx, blocks[i].uid,
                       blocks[i].host, "", "none", "", "", Undefined),
                -1, NoUni, FALSE)
        /\ UNCHANGED <<schemaCache, fieldCache, currentSchema, formHtml, rootSel,
                       timers, nextUid, selects, exported>>

(***************************************************************************)
(* What the user can enter: this.value of a text input, parseFloat of a    *)
(* number input (NaN when the input is left empty).                        *)
(***************************************************************************)
InputValues(kind) == IF kind = "number" THEN {Num(7), NaN} ELSE {Str("x")}

Range(seq) == {seq[i] : i \in DOMAIN seq}

\* a $ref property of an item or of the root form, as resolved while rendering
ResolveNested(s, prop) ==
    LookupSchema(schemaCache[s].schemas, schemaCache, s, RefLastSegment(prop.ref))

\* the control rendered for a property of the root form (generateNestedObjectField falls
\* back to generateFallbackField when the reference does not resolve)
RootControl(field) ==
    IF RootKind(field) = "nested" /\ ~Truthy(ResolveNested(formHtml.key, field))
    THEN "fallback" ELSE RootKind(field)

\* the control rendered for a property of an item (generateArrayItemNestedObjectField
\* falls back to generateArrayItemFallbackField)
ItemControl(b, prop) ==
    IF ItemKind(prop) = "nested" /\ ~Truthy(ResolveNested(b.s, prop))
    THEN "fallback" ELSE ItemKind(prop)


EditLast(op, b, prop, sub, val) ==
    LastOp(op, b.s, b.field, b.idx, b.uid, b.host, "", "none", prop, sub, val)

(***************************************************************************)
(* Inputs of an item block.                                                *)
(***************************************************************************)
\* ArrayManager.updateArrayItemData, from a text or number input of the item or from
\* the fallback input of an unresolved nested object
EditItemField ==
    \E i \in DOMAIN blocks :
    \E prop \in Range(ModelOfBlock(schemaCache, blocks[i]).properties) :
    \E v \in InputValues(IF ItemKind(prop) = "number" THEN "number" ELSE "text") :
        /\ ItemControl(blocks[i], prop) \in {"text", "number", "fallback"}
        /\ Acted
        /\ formData' = DM_updateArrayItemData(formData, blocks[i].s, blocks[i].field,
                                              blocks[i].idx, prop.name, v)
        /\ owner' = EnsureItem(owner, blocks[i].s, blocks[i].field, blocks[i].idx)
        /\ Note(EditLast("edit", blocks[i], prop.name, "", v), -1, NoUni, FALSE)
        /\ UNCHANGED <<schemaCache, fieldCache, currentSchema, formHtml, blocks,
                       rootSel, timers, nextUid, selects, exported>>

\* ArrayManager.updateArrayItemNestedObjectFieldData, from an input of a nested object
EditItemNested ==
    \E i \in DOMAIN blocks :
    \E prop \in Range(ModelOfBlock(schemaCache, blocks[i]).properties) :
        /\ ItemControl(blocks[i], prop) = "nested"
        /\ \E np \in Range(ResolveNested(blocks[i].s, prop).f.properties) :
           \E v \in InputValues(LeafKind(np)) :
            /\ Acted
            /\ formData' = DM_updateArrayItemNestedObjectFieldData(
                               formData, blocks[i].s, blocks[i].field, blocks[i].idx,
                               prop.name, np.name, v)
            /\ owner' = EnsureItem(owner, blocks[i].s, blocks[i].field, blocks[i].idx)
            /\ Note(EditLast("editNested", blocks[i], prop.name, np.name, v),
                    -1, NoUni, FALSE)
        /\ UNCHANGED <<schemaCache, fieldCache, currentSchema, formHtml, blocks,
                       rootSel, timers, nextUid, selects, exported>>

(***************************************************************************)
(* Union fields of an item block.                                          *)
(***************************************************************************)
\* document.getElementById(unionFieldsId): the first block holding a union container
\* with that id, 0 when there is none
UnionContainerBlock(fh, bs, cache, id) ==
    LET order == DocOrder(fh, bs, cache)
        is(i) == \E prop \in Range(ModelOfBlock(cache, order[i]).properties) :
                    /\ ItemKind(prop) = "union"
                    /\ UnionFieldsId(order[i].field, order[i].idx, prop.name) = id
    IN  IF \E i \in DOMAIN order : is(i)
        THEN order[CHOOSE i \in DOMAIN order : is(i) /\ \A j \in 1..(i - 1) : ~is(j)].uid
        ELSE 0

\* the schema of the variant a union option names: Undefined when the cache entry, the
\* option or the schema is missing (renderArrayItemUnionFields / renderUnionFields)
VariantSchema(fc, cache, s, cacheKey, value) ==
    IF cacheKey \notin DOMAIN fc THEN Undefined
    ELSE IF ~Truthy(FindOption(fc[cacheKey].unionOptions, value)) THEN Undefined
    ELSE IF ~HasRef(FindOption(fc[cacheKey].unionOptions, value).f.schema_ref) THEN Undefined
    ELSE LookupSchema(cache[fc[cacheKey].allSchemas].schemas, cache, s,
                      RefLastSegment(FindOption(fc[cacheKey].unionOptions, value).f.schema_ref))

VariantName(fc, cacheKey, value) ==
    RefLastSegment(FindOption(fc[cacheKey].unionOptions, value).f.schema_ref)

\* selectArrayItemUnionOption's writes to the store: the option value, then
\* renderArrayItemUnionFields' initializeArrayItemUnionFormData when the variant resolves
StoreAfterItemUnion(fd, s, fieldName, itemIndex, propName, value, schema) ==
    IF Truthy(schema)
    THEN DM_initializeArrayItemUnionFormData(
             DM_updateArrayItemData(fd, s, fieldName, itemIndex, propName, Str(value)),
             s, fieldName, itemIndex, propName, schema.f)
    ELSE DM_updateArrayItemData(fd, s, fieldName, itemIndex, propName, Str(value))

\* container.innerHTML = fieldsHtml: the variant's inputs, with the handler arguments
\* generateArrayItemUnionSchemaFields wrote into them
RenderItemUnionFields(bs, el, b, propName, variant) ==
    [j \in DOMAIN bs |->
        IF bs[j].uid = el
        THEN [bs[j] EXCEPT !.sel = Put(@, propName,
                 [model |-> variant, s |-> b.s, field |-> b.field, idx |-> b.idx,
                  prop |-> propName])]
        ELSE bs[j]]

ItemUnionCommit(b, propName, value, key, schema, el) ==
    /\ formData' = StoreAfterItemUnion(formData, b.s, b.field, b.idx, propName, value, schema)
    /\ owner' = EnsureItem(owner, b.s, b.field, b.idx)
    /\ blocks' = IF Truthy(schema) /\ el # 0
                 THEN RenderItemUnionFields(blocks, el, b, propName,
                                            VariantName(fieldCache, key, value))
                 ELSE blocks
    /\ IF Truthy(schema)
       THEN Note(LastOp("selectUnion", b.s, b.field, b.idx, b.uid, b.host, "resolved",
                        IF el # 0 THEN "fields" ELSE "none", propName, value,
                        Obj(DefaultsCopy(schema.f))),
                 ScenAfterSelect(b.s, b.field, b.idx, propName, value),
                 UniAfterSelect(Cell(FALSE, b.s, b.field, b.idx, propName),
                                VariantName(fieldCache, key, value), TRUE),
                 FALSE)
       ELSE Note(LastOp("selectUnion", b.s, b.field, b.idx, b.uid, b.host, "unresolved",
                        "none", propName, value, Undefined),
                 -1, NoUni, FALSE)

\* ArrayManager.selectArrayItemUnionOption, from an option card of the item
SelectItemUnion ==
    \E i \in DOMAIN blocks :
    \E prop \in Range(ModelOfBlock(schemaCache, blocks[i]).properties) :
        /\ ItemKind(prop) = "union"
        /\ Acted
        /\ \E o \in Range(ItemUnionOptions(prop)) :
            ItemUnionCommit(blocks[i], prop.name, o.value,
                ItemUnionKey(blocks[i].s, blocks[i].field, blocks[i].idx, prop.name),
                VariantSchema(fieldCache, schemaCache, blocks[i].s,
                    ItemUnionKey(blocks[i].s, blocks[i].field, blocks[i].idx, prop.name),
                    o.value),
                UnionContainerBlock(formHtml, blocks, schemaCache,
                    UnionFieldsId(blocks[i].field, blocks[i].idx, prop.name)))
        /\ UNCHANGED <<schemaCache, fieldCache, currentSchema, formHtml, rootSel,
                       timers, nextUid, selects, exported>>

ItemUnionEdit(b, r, sp, v) ==
    /\ Acted
    /\ formData' = DM_updateArrayItemUnionFieldData(formData, r.s, r.field, r.idx, r.prop,
                                                    sp.name, v)
    /\ owner' = EnsureItem(owner, r.s, r.field, r.idx)
    /\ Note(LastOp("editUnion", r.s, r.field, r.idx, b.uid, b.host, r.model, "none",
                   r.prop, sp.name, v),
            -1, UniAfterEdit(Cell(FALSE, r.s, r.field, r.idx, r.prop), r.model), FALSE)
    /\ UNCHANGED <<schemaCache, fieldCache, currentSchema, formHtml, blocks,
                   rootSel, timers, nextUid, selects, exported>>

\* ArrayManager.updateArrayItemUnionFieldData, from an input of the variant rendered in
\* a union container of the item
EditItemUnionField ==
    \E i \in DOMAIN blocks :
    \E p \in DOMAIN blocks[i].sel :
    \E sp \in Range(LookupSchema(schemaCache[blocks[i].sel[p].s].schemas, schemaCache,
                                 blocks[i].sel[p].s, blocks[i].sel[p].model).f.properties) :
    \E v \in InputValues(LeafKind(sp)) :
        ItemUnionEdit(blocks[i], blocks[i].sel[p], sp, v)

(***************************************************************************)
(* Inputs of the root form.  Their handlers read currentSchema when fired. *)
(***************************************************************************)
RootLast(op, fieldName, outcome, emitted, sub, val) ==
    LastOp(op, currentSchema, fieldName, 0, 0, 0, outcome, emitted, fieldName, sub, val)

\* DynamicWorkflowManager.updateFormData, from a text or number input or from the
\* fallback input of an unresolved nested object
EditRootField ==
    \E field \in Range(RootProps(formHtml, schemaCache)) :
    \E v \in InputValues(IF RootKind(field) = "number" THEN "number" ELSE "text") :
        /\ RootControl(field) \in {"text", "number", "fallback"}
        /\ Acted
        /\ formData' = DM_updateFormData(formData, currentSchema, field.name, v)
        /\ Note(RootLast("editRoot", field.name, "", "none", "", v), -1, NoUni, FALSE)
        /\ UNCHANGED <<schemaCache, fieldCache, currentSchema, formHtml, blocks, rootSel,
                       timers, nextUid, owner, selects, exported>>

\* DynamicWorkflowManager.updateNestedObjectFieldData, from an input of a nested object
EditRootNested ==
    \E field \in Range(RootProps(formHtml, schemaCache)) :
        /\ RootControl(field) = "nested"
        /\ \E np \in Range(ResolveNested(formHtml.key, field).f.properties) :
           \E v \in InputValues(LeafKind(np)) :
            /\ Acted
            /\ formData' = DM_updateNestedObjectFieldData(formData, currentSchema,
                                                          field.name, np.name, v)
            /\ Note(RootLast("editRootNested", field.name, "", "none", np.name, v),
                    -1, NoUni, FALSE)
        /\ UNCHANGED <<schemaCache, fieldCache, currentSchema, formHtml, blocks, rootSel,
                       timers, nextUid, owner, selects, exported>>

\* selectUnionOption's writes to the store: the option value, then renderUnionFields'
\* initializeUnionFormData when the variant resolves
StoreAfterRootUnion(fd, s, fieldName, value, schema) ==
    IF Truthy(schema)
    THEN DM_initializeUnionFormData(DM_updateFormData(fd, s, fieldName, Str(value)),
                                    s, fieldName, schema.f)
    ELSE DM_updateFormData(fd, s, fieldName, Str(value))

RootUnionCommit(fieldName, value, key, schema) ==
    /\ formData' = StoreAfterRootUnion(formData, currentSchema, fieldName, value, schema)
    /\ IF Truthy(schema)
       THEN /\ rootSel' = Put(rootSel, fieldName, VariantName(fieldCache, key, value))
            /\ Note(RootLast("selectRootUnion", fieldName, "resolved", "fields", value,
                             Obj(DefaultsCopy(schema.f))),
                    -1,
                    UniAfterSelect(Cell(TRUE, currentSchema, fieldName, 0, ""),
                                   VariantName(fieldCache, key, value), TRUE),
                    FALSE)
       ELSE /\ rootSel' = rootSel
            /\ Note(RootLast("selectRootUnion", fieldName, "unresolved", "none", value,
                             Undefined),
                    -1, NoUni, FALSE)

\* DynamicWorkflowManager.selectUnionOption, from an option card of the root form
SelectRootUnion ==
    \E field \in Range(RootProps(formHtml, schemaCache)) :
        /\ RootKind(field) = "union"
        /\ Acted
        /\ \E o \in Range(field.union_options) :
            RootUnionCommit(field.name, o.value, RootUnionKey(currentSchema, field.name),
                VariantSchema(fieldCache, schemaCache, currentSchema,
                              RootUnionKey(currentSchema, field.name), o.value))
        /\ UNCHANGED <<schemaCache, fieldCache, currentSchema, formHtml, blocks,
                       timers, nextUid, owner, selects, exported>>

\* DynamicWorkflowManager.updateUnionFieldData, from an input of the variant rendered
\* in union-fields-<field>
EditRootUnionField ==
    \E fieldName \in DOMAIN rootSel :
    \E sp \in Range(LookupSchema(schemaCache[formHtml.doc].schemas, schemaCache,
                                 formHtml.key, rootSel[fieldName]).f.properties) :
    \E v \in InputValues(LeafKind(sp)) :
        /\ Acted
        /\ formData' = DM_updateUnionFieldData(formData, currentSchema, fieldName, sp.name, v)
        /\ Note(RootLast("editRootUnion", fieldName, rootSel[fieldName], "none", sp.name, v),
                -1, UniAfterEdit(Cell(TRUE, currentSchema, fieldName, 0, ""),
                                 rootSel[fieldName]),
                FALSE)
        /\ UNCHANGED <<schemaCache, fieldCache, currentSchema, formHtml, blocks,
                       rootSel, timers, nextUid, owner, selects, exported>>

(***************************************************************************)
(* DataManager.exportData / importData.  JSON text is kept as its syntax   *)
(* tree: JSON has no NaN and no undefined.                                 *)
(***************************************************************************)
JNull == [j |-> "null"]
JString(s) == [j |-> "string", s |-> s]
JNumber(n) == [j |-> "number", n |-> n]
JObject(f) == [j |-> "object", f |-> f]
JArray(a) == [j |-> "array", a |-> a]

\* JSON.stringify: NaN becomes null, an undefined array element becomes null, a property
\* holding undefined is left out
RECURSIVE JSON_stringify(_)
JSON_stringify(v) ==
    CASE v.t = "object" ->
           JObject([k \in {k \in DOMAIN v.f : v.f[k].t # "undefined"} |->
                        JSON_stringify(v.f[k])])
      [] v.t = "array" ->
           JArray([i \in DOMAIN v.a |->
                        IF v.a[i].t = "undefined" THEN JNull ELSE JSON_stringify(v.a[i])])
      [] v.t = "string" -> JString(v.s)
      [] v.t = "number" -> JNumber(v.n)
      [] OTHER -> JNull

RECURSIVE JSON_parse(_)
JSON_parse(text) ==
    CASE text.j = "object" -> Obj([k \in DOMAIN text.f |-> JSON_parse(text.f[k])])
      [] text.j = "array" -> Arr([i \in DOMAIN text.a |-> JSON_parse(text.a[i])])
      [] text.j = "string" -> Str(text.s)
      [] text.j = "number" -> Num(text.n)
      [] OTHER -> Null

\* new Date().toISOString()
Timestamp == Str("2024-01-01T00:00:00.000Z")

\* exportData(currentSchema, 'json'): throws when the tree has no keys
DM_exportData(fd, s) ==
    IF DOMAIN DM_getFormDataForSchema(fd, s) = {}
    THEN [outcome |-> "throw", content |-> Undefined]
    ELSE [outcome |-> "ok",
          content |-> JSON_stringify(Obj([timestamp |-> Timestamp,
                                          workflow_name |-> Str(s),
                                          form_data |-> Obj(DM_getFormDataForSchema(fd, s))]))]

\* the object importData spreads: the parsed text, or its form_data when that is truthy
ImportPayload(parsed) ==
    IF IsObj(parsed) /\ Truthy(Prop(parsed.f, "form_data")) THEN parsed.f["form_data"]
    ELSE parsed

\* importData(currentSchema, importedData, 'replace') of an exported text
DM_importData(fd, s, importedData) ==
    Put(fd, s, Assign(EmptyObj, ImportPayload(JSON_parse(importedData)).f))

\* a caller exports the tree of a schema and imports the exported content back
ExportImport ==
    \E s \in Workflows :
        /\ Acted
        /\ exported' = [outcome |-> DM_exportData(formData, s).outcome, s |-> s,
                        content |-> DM_exportData(formData, s).content,
                        tree |-> DM_getFormDataForSchema(formData, s)]
        /\ formData' = IF DM_exportData(formData, s).outcome = "ok"
                       THEN DM_importData(formData, s, DM_exportData(formData, s).content)
                       ELSE formData
        /\ Note(LastOp("roundTrip", s, "", 0, 0, 0, DM_exportData(formData, s).outcome,
                       "none", "", "", Undefined),
                -1, NoUni, FALSE)
        /\ UNCHANGED <<schemaCache, fieldCache, currentSchema, formHtml, blocks, rootSel,
                       timers, nextUid, owner, selects>>

(***************************************************************************)
(* The form page: any workflow may be selected, any rendered control used. *)
(***************************************************************************)
Select == \E w \in Workflows, ok \in BOOLEAN : SelectSchema(w, ok)

RefIdle == UNCHANGED <<refVars, extVars>>

\* the generator is constructed and left alone
RefInitIdle ==
    /\ rawSchema = Null
    /\ referenceCache = <<>>
    /\ calls = <<>>

\* the other components are constructed and left alone
ExtInit ==
    /\ keyed = {}
    /\ availableWorkflows = <<>>
    /\ schemasLoaded = FALSE
    /\ isLoadingWorkflows = FALSE
    /\ loader = [pc |-> "idle", i |-> 0]
    /\ inflight = {}
    /\ requests = <<>>
    /\ loads = [started |-> 0, skipped |-> 0, finished |-> 0, fetches |-> 0]
    /\ storage = [j |-> "none"]
    /\ persist = [op |-> "none", n |-> 0, s |-> "", failed |-> FALSE, raised |-> FALSE,
                  pre |-> <<>>, expect |-> <<>>, value |-> <<>>]
    /\ rendered = [path |-> "none", model |-> <<>>, fragments |-> <<>>]
    /\ dynamicFormData = <<>>
    /\ submitted = [n |-> 0, formId |-> "", inputs |-> <<>>, dispatched |-> FALSE,
                    collected |-> [t |-> "undefined"]]
    /\ generated = [n |-> 0, input |-> [t |-> "undefined"], result |-> <<>>]
    /\ heap = <<[kind |-> "object", f |-> [title |-> [t |-> "string", s |-> "untitled"],
                                            owner |-> [t |-> "at", at |-> 2]], a |-> <<>>],
                [kind |-> "object", f |-> [name |-> [t |-> "string", s |-> "anon"]], a |-> <<>>],
                [kind |-> "object", f |-> [name |-> [t |-> "string", s |-> "new"],
                                            address |-> [t |-> "at", at |-> 4]], a |-> <<>>],
                [kind |-> "object", f |-> [city |-> [t |-> "string", s |-> "Oslo"]], a |-> <<>>]>>
    /\ formRoots = <<>>
    /\ heapLast = [op |-> "none", prev |-> "none", n |-> 0, idx |-> 0, pre |-> <<>>]
    /\ pending = <<>>
    /\ evaluation = [loadingSchema |-> FALSE, schemaLoaded |-> FALSE,
                     schemaError |-> [t |-> "null"],
                     lastLoadedWorkflow |-> [t |-> "undefined"]]
    /\ schemaLoad = [pc |-> "idle", n |-> 0, workflowName |-> "", endpoint |-> 0,
                     lastError |-> [t |-> "null"], answers |-> <<>>, threw |-> FALSE,
                     fallback |-> FALSE]

Init == FormInit /\ RefInitIdle /\ ExtInit

Next ==
    \/ Select /\ RefIdle
    \/ FireAutoAddFirst /\ RefIdle
    \/ FireAddByName /\ RefIdle
    \/ ClickAdd /\ RefIdle
    \/ ClickRemove /\ RefIdle
    \/ EditItemField /\ RefIdle
    \/ EditItemNested /\ RefIdle
    \/ SelectItemUnion /\ RefIdle
    \/ EditItemUnionField /\ RefIdle
    \/ EditRootField /\ RefIdle
    \/ EditRootNested /\ RefIdle
    \/ SelectRootUnion /\ RefIdle
    \/ EditRootUnionField /\ RefIdle
    \/ ExportImport /\ RefIdle

Spec == Init /\ [][Next]_vars

(***************************************************************************)
(* ImprovedDynamicFormGenerator: the Reference Resolver.  Names and refs   *)
(* are sequences of characters, so that the prefixes and the case          *)
(* conversions are computed as the code computes them.                     *)
(***************************************************************************)
LowerOf ==
    [A |-> "a", B |-> "b", C |-> "c", D |-> "d", E |-> "e", F |-> "f", G |-> "g",
     H |-> "h", I |-> "i", J |-> "j", K |-> "k", L |-> "l", M |-> "m", N |-> "n",
     O |-> "o", P |-> "p", Q |-> "q", R |-> "r", S |-> "s", T |-> "t", U |-> "u",
     V |-> "v", W |-> "w", X |-> "x", Y |-> "y", Z |-> "z"]

IsUpper(c) == c \in DOMAIN LowerOf
IsLower(c) == \E u \in DOMAIN LowerOf : LowerOf[u] = c
ToUpper(c) == CHOOSE u \in DOMAIN LowerOf : LowerOf[u] = c

\* String.prototype.toLowerCase
LowerCase(str) == [i \in DOMAIN str |-> IF IsUpper(str[i]) THEN LowerOf[str[i]] ELSE str[i]]

\* str.startsWith(pat)
StartsWith(str, pat) == Len(str) >= Len(pat) /\ SubSeq(str, 1, Len(pat)) = pat

\* str.replace(pat, rep) with a string pattern: the first occurrence only
RECURSIVE ReplaceFirst(_, _, _)
ReplaceFirst(str, pat, rep) ==
    IF Len(str) < Len(pat) THEN str
    ELSE IF StartsWith(str, pat) THEN rep \o SubSeq(str, Len(pat) + 1, Len(str))
    ELSE <<Head(str)>> \o ReplaceFirst(Tail(str), pat, rep)

\* str.replace(/([A-Z])/g, '_$1')
RECURSIVE UnderscoreCapitals(_)
UnderscoreCapitals(str) ==
    IF str = <<>> THEN <<>>
    ELSE (IF IsUpper(Head(str)) THEN <<"_", Head(str)>> ELSE <<Head(str)>>)
         \o UnderscoreCapitals(Tail(str))

\* str.replace(/^_/, '')
DropLeadingUnderscore(str) == IF str # <<>> /\ Head(str) = "_" THEN Tail(str) ELSE str

camelToSnake(str) == DropLeadingUnderscore(LowerCase(UnderscoreCapitals(str)))

\* str.replace(/_([a-z])/g, (match, letter) => letter.toUpperCase())
RECURSIVE snakeToCamel(_)
snakeToCamel(str) ==
    IF str = <<>> THEN <<>>
    ELSE IF Len(str) >= 2 /\ str[1] = "_" /\ IsLower(str[2])
         THEN <<ToUpper(str[2])>> \o snakeToCamel(SubSeq(str, 3, Len(str)))
    ELSE <<Head(str)>> \o snakeToCamel(Tail(str))

\* ref.replace(/^#\/.*\//, ''): through the last slash, when the ref starts with #/ and
\* has a later slash
StripPath(ref) ==
    IF StartsWith(ref, <<"#", "/">>) /\ \E j \in 3..Len(ref) : ref[j] = "/"
    THEN SubSeq(ref, 1 + CHOOSE j \in 3..Len(ref) :
                            ref[j] = "/" /\ \A k \in (j + 1)..Len(ref) : ref[k] # "/",
                Len(ref))
    ELSE ref

DefsPrefix == <<"#", "/", "$", "d", "e", "f", "s", "/">>
DefinitionsPrefix == <<"#", "/", "d", "e", "f", "i", "n", "i", "t", "i", "o", "n", "s", "/">>
SchemasPrefix == <<"#", "/", "s", "c", "h", "e", "m", "a", "s", "/">>
RootModelPrefix == <<"R", "o", "o", "t", "M", "o", "d", "e", "l", "_">>

\* map?.[name]
Lookup(map, name) == IF name \in DOMAIN map THEN map[name] ELSE Undefined

\* the candidates of findInDefinitions, in the order it tries them
Variations(defName) ==
    <<defName,
      RootModelPrefix \o defName,
      ReplaceFirst(defName, RootModelPrefix, <<>>),
      camelToSnake(defName),
      snakeToCamel(defName)>>

\* the loop of findInDefinitions from candidate i on: schemas, then definitions
RECURSIVE FindVariation(_, _, _)
FindVariation(doc, variations, i) ==
    IF i > Len(variations) THEN Null
    ELSE IF Truthy(Lookup(doc.schemas, variations[i])) THEN doc.schemas[variations[i]]
    ELSE IF Truthy(Lookup(doc.definitions, variations[i]))
         THEN doc.definitions[variations[i]]
    ELSE FindVariation(doc, variations, i + 1)

findInDefinitions(doc, defName) ==
    IF Truthy(Lookup(doc.definitions, defName)) THEN doc.definitions[defName]
    ELSE IF Truthy(Lookup(doc.schemas, defName)) THEN doc.schemas[defName]
    ELSE FindVariation(doc, Variations(defName), 1)

\* resolveReference past the cache check: the branch the prefix selects
ResolveUncached(doc, ref) ==
    IF StartsWith(ref, DefsPrefix)
    THEN findInDefinitions(doc, ReplaceFirst(ref, DefsPrefix, <<>>))
    ELSE IF StartsWith(ref, DefinitionsPrefix)
    THEN findInDefinitions(doc, ReplaceFirst(ref, DefinitionsPrefix, <<>>))
    ELSE IF StartsWith(ref, SchemasPrefix)
    THEN Lookup(doc.schemas, ReplaceFirst(ref, SchemasPrefix, <<>>))
    ELSE IF Truthy(Lookup(doc.schemas, StripPath(ref))) THEN doc.schemas[StripPath(ref)]
    ELSE findInDefinitions(doc, StripPath(ref))

\* names of model definitions
nStore == <<"S", "t", "o", "r", "e">>
nRootModel == <<"R", "o", "o", "t", "M", "o", "d", "e", "l">>
nBikeStock == <<"B", "i", "k", "e", "S", "t", "o", "c", "k">>
nBikeStockCamel == <<"b", "i", "k", "e", "S", "t", "o", "c", "k">>
nBikeStockSnake == <<"b", "i", "k", "e", "_", "s", "t", "o", "c", "k">>
nRider == <<"R", "i", "d", "e", "r">>
nGhost == <<"G", "h", "o", "s", "t">>

Definition(title) == Obj([title |-> Str(title)])

\* a unified document: RootModel_-prefixed and snake_case model names, one definition
UnifiedDoc ==
    [schemas |-> (nRootModel :> Definition("root"))
                  @@ ((RootModelPrefix \o nStore) :> Definition("unified store"))
                  @@ (nBikeStockSnake :> Definition("unified stock")),
     definitions |-> (nRider :> Definition("rider"))]

\* a multi-model document: bare and camelCase model names, no definitions section
PlainDoc ==
    [schemas |-> (nStore :> Definition("plain store"))
                  @@ (nBikeStockCamel :> Definition("plain stock")),
     definitions |-> <<>>]

Documents == {UnifiedDoc, PlainDoc}

ComponentsPrefix == <<"#", "/", "c", "o", "m", "p", "o", "n", "e", "n", "t", "s", "/">>

\* the refs handed to resolveReference
Refs ==
    {DefsPrefix \o nStore, DefsPrefix \o nBikeStock, DefsPrefix \o nBikeStockSnake,
     DefsPrefix \o nGhost, DefinitionsPrefix \o (RootModelPrefix \o nStore),
     DefinitionsPrefix \o nRider, SchemasPrefix \o nStore,
     SchemasPrefix \o (RootModelPrefix \o nStore), ComponentsPrefix \o nStore, nStore}

\* a variant that caches the direct lookup of the name instead of what was resolved
CachedDirectLookup(doc, ref, resolved) == Lookup(doc.schemas, StripPath(ref))

\* what resolveReference stores in the cache for a ref it resolved
CachedValue(doc, ref, resolved) == resolved

\* a call that throws: rawSchema is still null and the ref is not cached
Thrown == [t |-> "TypeError"]

Call(ref, result, cached) ==
    [ref |-> ref, doc |-> rawSchema, result |-> result, cached |-> cached]

\* ImprovedDynamicFormGenerator.generateForm: the document becomes rawSchema; the
\* Reference Cache is kept
GenerateForm ==
    \E doc \in Documents :
        /\ rawSchema # doc
        /\ rawSchema' = doc
        /\ UNCHANGED <<referenceCache, calls>>

\* ImprovedDynamicFormGenerator.resolveReference
ResolveReference ==
    \E ref \in Refs :
        /\ Len(calls) < MaxCalls
        /\ IF ref \in DOMAIN referenceCache
           THEN /\ calls' = Append(calls, Call(ref, referenceCache[ref], TRUE))
                /\ UNCHANGED referenceCache
           ELSE IF rawSchema = Null
           THEN /\ calls' = Append(calls, Call(ref, Thrown, FALSE))
                /\ UNCHANGED referenceCache
           ELSE /\ calls' = Append(calls, Call(ref, ResolveUncached(rawSchema, ref), FALSE))
                /\ referenceCache' =
                     IF Truthy(ResolveUncached(rawSchema, ref))
                     THEN Put(referenceCache, ref,
                              CachedValue(rawSchema, ref, ResolveUncached(rawSchema, ref)))
                     ELSE referenceCache
        /\ UNCHANGED rawSchema

FormIdle == UNCHANGED <<formVars, extVars>>

RefInit ==
    /\ rawSchema = Null
    /\ referenceCache = <<>>
    /\ calls = <<>>

RefNext ==
    \/ GenerateForm /\ FormIdle
    \/ ResolveReference /\ FormIdle

\* the generator is constructed; the form page is left alone
InitRef == FormInit /\ RefInit /\ ExtInit

RefSpec == InitRef /\ [][RefNext]_vars

\* C8: resolveReference is idempotent: two consecutive calls with the same ref
\* against the same document return the same model definition, or both return
\* not-found; the first call changes nothing that alters the second result.
C8_ResolveReferenceIsIdempotent ==
    \A i \in 1..(Len(calls) - 1) :
        (calls[i].ref = calls[i + 1].ref /\ calls[i].doc = calls[i + 1].doc
            /\ calls[i].doc # Null)
          => calls[i + 1].result = calls[i].result

\* C8 witness: a ref resolved through a name variant, then resolved again against
\* the same document and answered from the Reference Cache
C8_Witness_ResolvedTwice ==
    /\ Len(calls) >= 2
    /\ calls[1].ref = DefsPrefix \o nStore
    /\ calls[2].ref = calls[1].ref
    /\ calls[1].doc = UnifiedDoc
    /\ calls[2].doc = UnifiedDoc
    /\ ~calls[1].cached
    /\ calls[2].cached
    /\ calls[2].result = Definition("unified store")

\* the prefixes the resolver knows
KnownPrefixes == {DefsPrefix, DefinitionsPrefix, SchemasPrefix}

\* the ref without its known prefix
BareName(ref) ==
    ReplaceFirst(ref, CHOOSE prefix \in KnownPrefixes : StartsWith(ref, prefix), <<>>)

\* the model map of a document
InModelMap(doc, name) == name \in DOMAIN doc.schemas \/ name \in DOMAIN doc.definitions
ModelMapGet(doc, name) ==
    IF name \in DOMAIN doc.schemas THEN doc.schemas[name] ELSE doc.definitions[name]

\* the names of the stated order: the bare name, then the literal name, the
\* RootModel_-prefixed name, the name with that prefix stripped, the snake_case form,
\* the camelCase form
StatedOrder(name) ==
    <<name, name, RootModelPrefix \o name, ReplaceFirst(name, RootModelPrefix, <<>>),
      camelToSnake(name), snakeToCamel(name)>>

\* C9: for a ref carrying a known prefix (#/$defs/, #/definitions/, #/schemas/),
\* resolution strips the prefix to a bare name, looks it up directly in the model
\* map and, if absent, tries the literal name, the RootModel_-prefixed name, the name
\* with that prefix stripped, the snake_case form and the camelCase form; the result
\* is the first that exists, and not-found only if none exists.
C9_KnownPrefixesResolveThroughVariants ==
    \A i \in DOMAIN calls :
        ((\E prefix \in KnownPrefixes : StartsWith(calls[i].ref, prefix))
            /\ calls[i].doc # Null /\ ~calls[i].cached)
          => LET order == StatedOrder(BareName(calls[i].ref))
                 hits == {k \in DOMAIN order : InModelMap(calls[i].doc, order[k])}
             IN  IF hits = {} THEN ~Truthy(calls[i].result)
                 ELSE calls[i].result
                        = ModelMapGet(calls[i].doc,
                                      order[CHOOSE k \in hits : \A m \in hits : k <= m])

(***************************************************************************)
(* The union controls with the array controls that create and remove the   *)
(* items holding them.                                                     *)
(***************************************************************************)
UnionNext ==
    \/ Select /\ RefIdle
    \/ FireAutoAddFirst /\ RefIdle
    \/ FireAddByName /\ RefIdle
    \/ ClickAdd /\ RefIdle
    \/ ClickRemove /\ RefIdle
    \/ SelectItemUnion /\ RefIdle
    \/ EditItemUnionField /\ RefIdle
    \/ SelectRootUnion /\ RefIdle
    \/ EditRootUnionField /\ RefIdle

UnionSpec == Init /\ [][UnionNext]_vars

(***************************************************************************)
(* Properties of the array controls.                                       *)
(***************************************************************************)
\* C1: every add-item action on a rendered array field whose container exists
\* increases the length of the stored array for that field by exactly one and
\* appends exactly one item block to the field's container, whatever the item
\* reference resolves to.
C1_AddGrowsStoreAndContainerByOne ==
    (last.op \in {"add", "autoadd"} /\ last.outcome \in {"added", "unresolved"}) =>
        /\ StoredLen(formData, last.s, last.field) = last.preLen + 1
        /\ Len(BlocksIn(blocks, last.host, last.field)) = last.preCount + 1

\* a sequence without the entries equal to x, the others in their order
Without(seq, x) == SelectSeq(seq, LAMBDA e : e # x)

\* C2: every remove fired from the remove control of a rendered item block, after
\* any adds and removes, decreases the stored array length by exactly one, removes
\* the entry of that item, and leaves the other entries contiguous in their order.
C2_RemoveDropsTheEntryOfItsBlock ==
    last.op = "remove" =>
        /\ StoredLen(formData, last.s, last.field) = last.preLen - 1
        /\ StoredArr(owner, last.s, last.field) = Without(last.preOwn, OwnerMark(last.uid))

\* C3: after any sequence of adds, removes and edits through the rendered controls,
\* the number of item blocks in an array field's container equals the length of
\* the array stored for that field.
C3_BlocksMatchStoredItems ==
    \A h \in {0} \cup {blocks[i].uid : i \in DOMAIN blocks} :
    \A n \in DOMAIN ContainerNames(formHtml, blocks, schemaCache, h) :
        Len(BlocksIn(blocks, h, ContainerNames(formHtml, blocks, schemaCache, h)[n]))
          = StoredLen(formData, IF h = 0 THEN formHtml.key ELSE BlockByUid(blocks, h).s,
                      ContainerNames(formHtml, blocks, schemaCache, h)[n])

\* C4: after adding one store, adding one bike-stock item inside it and selecting
\* the Electric variant, the tree read back is
\* {stores: [{bike_stock: [{bike: <electric defaults>, quantity: 0}]}]}: the nested
\* items are stored inside their parent item and under no other key.
C4_NestedItemsStoredInsideParent ==
    scen = 3 =>
        DM_getFormDataForSchema(formData, "bike_stock") =
            [stores |-> Arr(<<Obj([bike_stock |->
                Arr(<<Obj([bike |-> Obj([battery |-> Num(500)]),
                           quantity |-> Num(0)])>>)])>>)]

(***************************************************************************)
(* Properties of the union controls.                                       *)
(***************************************************************************)
\* the value stored for the union field a control addresses
CellValue(fd, cell) ==
    IF cell.root THEN Prop(DM_getFormDataForSchema(fd, cell.s), cell.field)
    ELSE IF Truthy(ArrGet(StoredArr(fd, cell.s, cell.field), cell.idx))
         THEN Prop(ArrGet(StoredArr(fd, cell.s, cell.field), cell.idx).f, cell.prop)
    ELSE Undefined

\* the model definition a variant name resolved to
VariantModel(s, variant) == LookupSchema(schemaCache[s].schemas, schemaCache, s, variant).f

\* C5: for a union field, top-level or inside an array item, selecting variant A,
\* editing one of A's fields, then selecting a different variant B whose schema
\* resolves leaves the stored value of the field equal to a copy of B's declared
\* default values, with no field of A remaining.
C5_SwitchingVariantLeavesDefaultsOfB ==
    uni.stage = 3 =>
        /\ CellValue(formData, uni.cell)
             = Obj(DefaultsCopy(VariantModel(uni.cell.s, uni.variant)))
        /\ \A p \in Range(VariantModel(uni.cell.s, uni.from).properties) :
              p.name \notin DOMAIN DefaultsCopy(VariantModel(uni.cell.s, uni.variant))
                 => p.name \notin DOMAIN CellValue(formData, uni.cell).f

\* C5 witness: inside an array item, a variant was selected, one of its fields was
\* edited, and a different variant that resolves has just been selected
C5_Witness_SwitchedInsideItem ==
    /\ uni.stage = 3
    /\ ~uni.cell.root
    /\ last.op = "selectUnion"
    /\ last.outcome = "resolved"

(***************************************************************************)
(* Properties of loading a form and of the export / import round trip.     *)
(***************************************************************************)
\* C6: after selectSchema(S) has completed and every timer it scheduled has fired,
\* with no user action in between, the tree read back for S equals the RootModel's
\* declared default values; in particular every array field holds no items.
C6_UntouchedFormHoldsDeclaredDefaults ==
    (pristine /\ timers = <<>>) =>
        /\ DM_getFormDataForSchema(formData, currentSchema)
             = DefaultsCopy(schemaCache[currentSchema].schemas["RootModel"])
        /\ \A field \in Range(RootProps(formHtml, schemaCache)) :
              RootKind(field) = "array" => StoredLen(formData, currentSchema, field.name) = 0

\* C7: for every tree the store can hold for a schema, the empty tree and trees
\* holding values of number inputs included, exportData(S, 'json') followed by
\* importData(S, content, 'replace') succeeds and leaves the tree deep-equal.
C7_ExportImportRoundTrips ==
    last.op = "roundTrip" =>
        /\ exported.outcome = "ok"
        /\ DM_getFormDataForSchema(formData, exported.s) = exported.tree

(***************************************************************************)
(* Properties of unresolved references.                                    *)
(***************************************************************************)
\* every nested-object field whose reference does not resolve is rendered as a fallback
\* input, in the root form and in every item block
NestedFallbacksRendered ==
    /\ \A field \in Range(RootProps(formHtml, schemaCache)) :
          (RootKind(field) = "nested" /\ ~Truthy(ResolveNested(formHtml.key, field)))
             => RootControl(field) = "fallback"
    /\ \A i \in DOMAIN blocks :
       \A prop \in Range(ModelOfBlock(schemaCache, blocks[i]).properties) :
          (ItemKind(prop) = "nested" /\ ~Truthy(ResolveNested(blocks[i].s, prop)))
             => ItemControl(blocks[i], prop) = "fallback"

\* C10: whenever a field's reference cannot be resolved (nested object of the root
\* form, nested object of an array item, item reference of an array field, selected
\* union variant), rendering does not throw, the rest of the form is still rendered,
\* the Form Data Store is left as it was before the attempt, and a visibly marked
\* fallback input is emitted for that field.
C10_UnresolvedReferenceLeavesStoreAndEmitsFallback ==
    [][/\ NestedFallbacksRendered'
       /\ (last'.outcome = "unresolved")
             => (formData' = formData /\ last'.emitted = "fallback")]_vars

(***************************************************************************)
(* The Field Cache keys.  The renderers cache a field definition under a   *)
(* key built from the schema name and the field's path; the property names *)
(* come from the schema document.                                          *)
(***************************************************************************)
MaxCached == 2
MaxKeyIndex == 1

\* property names a schema document can declare
KeyFieldNames == {"bike", "bike_union", "stores"}
KeyIndexes == 0..MaxKeyIndex

\* one cached entry: its kind, its path and the key the renderer builds for it
KeyEntry(kind, path, key) == [kind |-> kind, path |-> path, key |-> key]

\* this.fieldCache[key] = <definition>, for one more field of the schema
CacheUnder(e) ==
    /\ Cardinality(keyed) < MaxCached
    /\ e \notin keyed
    /\ fieldCache' = Put(fieldCache, e.key, [kind |-> e.kind, path |-> e.path])
    /\ keyed' = keyed \cup {e}
    /\ UNCHANGED <<formData, schemaCache, currentSchema, formHtml, blocks, rootSel,
                   timers, nextUid, owner, last, scen, uni, pristine, selects, acts,
                   exported, refVars, fetchVars, storeVars, renderVars, submitVars,
                   lateVars>>

\* ArrayManager.generateArrayField
GenerateArrayField ==
    \E fieldName \in KeyFieldNames :
        CacheUnder(KeyEntry("array", <<fieldName>>, ArrayFieldKey("bike_stock", fieldName)))

\* ArrayManager.generateNestedArrayField
GenerateNestedArrayField ==
    \E parentFieldName \in KeyFieldNames, parentIndex \in KeyIndexes, fieldName \in KeyFieldNames :
        CacheUnder(KeyEntry("nestedArray", <<parentFieldName, ToString(parentIndex), fieldName>>,
                            ArrayFieldKey("bike_stock",
                                          NestedFieldId(parentFieldName, parentIndex, fieldName))))

\* DynamicWorkflowManager.generateUnionSelectField
GenerateUnionSelectField ==
    \E fieldName \in KeyFieldNames :
        CacheUnder(KeyEntry("union", <<fieldName>>, RootUnionKey("bike_stock", fieldName)))

\* ArrayManager.generateArrayItemUnionField
GenerateArrayItemUnionField ==
    \E fieldName \in KeyFieldNames, itemIndex \in KeyIndexes, propName \in KeyFieldNames :
        CacheUnder(KeyEntry("itemUnion", <<fieldName, ToString(itemIndex), propName>>,
                            ItemUnionKey("bike_stock", fieldName, itemIndex, propName)))

KeyNext ==
    \/ GenerateArrayField
    \/ GenerateNestedArrayField
    \/ GenerateUnionSelectField
    \/ GenerateArrayItemUnionField

KeySpec == Init /\ [][KeyNext]_vars

\* C11: within one schema, the Field Cache keys of cached entries that differ in
\* kind or path are distinct, so every cached definition is still the one found
\* under its key: caching one field's definition never overwrites another's.
C11_FieldCacheKeysAreDistinct ==
    /\ \A e1, e2 \in keyed :
          (e1.kind # e2.kind \/ e1.path # e2.path) => e1.key # e2.key
    /\ \A e \in keyed :
          fieldCache[e.key] = [kind |-> e.kind, path |-> e.path]

\* C12: after any adds and removes on an array, the id given to a newly added item
\* block differs from the id of every item block rendered at that moment, so the
\* remove control of a block always removes the block it belongs to.
C12_NewItemBlockIdIsFresh ==
    /\ (last.op \in {"add", "autoadd"} /\ last.outcome = "added") =>
          \A i \in DOMAIN blocks :
              blocks[i].uid # last.uid =>
                  ItemId(blocks[i].field, blocks[i].idx) # ItemId(last.field, last.idx)
    /\ last.op = "remove" => \A i \in DOMAIN blocks : blocks[i].uid # last.uid

(***************************************************************************)
(* Fetching schemas.  fetchSchema (DynamicWorkflowManager and ArrayManager *)
(* share one schemaCache) looks in the cache, and on a miss awaits the     *)
(* network before it writes the cache.  fetchAvailableWorkflows awaits one *)
(* fetchSchema per configured workflow name.                               *)
(***************************************************************************)
MaxLoads == 2
MaxFetchCalls == 1

\* const workflowNames = [...]
WorkflowNames == <<"bike_insights", "restaurant_recommender", "bike_stock", "bike_sales">>

\* what a request can come back with: a document, a document without RootModel,
\* a non-2xx status or a network error
Responses == {"ok", "noroot", "fail"}

\* the document response.json() yields
ServedDoc(w, kind) ==
    IF kind = "noroot" THEN [workflow_name |-> w, schemas |-> <<>>]
    ELSE IF w \in Workflows THEN Backend(w)
    ELSE [workflow_name |-> w, schemas |-> [RootModel |-> Model(<<>>, Undefined)]]

\* what fetchSchema returns or throws once the response is in
FetchResult(w, kind) ==
    IF kind = "fail" THEN [thrown |-> TRUE, schema |-> Undefined]
    ELSE [thrown |-> FALSE, schema |-> Obj(ServedDoc(w, kind))]

\* this.schemaCache[workflowName] = schema, reached only when the response is ok
CacheAfterResponse(cache, w, kind) ==
    IF kind = "fail" THEN cache ELSE Put(cache, w, ServedDoc(w, kind))

RequestsFor(w) == IF w \in DOMAIN requests THEN requests[w] ELSE 0

\* fetch(`${API_BASE_URL}/schema/${workflowName}/`)
SendRequest(w) == requests' = Put(requests, w, RequestsFor(w) + 1)

FetchFrame ==
    UNCHANGED <<formData, fieldCache, currentSchema, formHtml, blocks, rootSel, timers,
                nextUid, owner, last, scen, uni, pristine, selects, acts, exported,
                refVars, keyVars, storeVars, renderVars, submitVars, lateVars>>

\* the body of the try inside the loop: schema.schemas.RootModel is read and the title
\* taken from it; a thrown fetch or a missing RootModel lands in the inner catch
WorkflowEntry(w, result) ==
    IF ~result.thrown /\ "RootModel" \in DOMAIN result.schema.f.schemas
    THEN [name |-> w, fallback |-> FALSE]
    ELSE [name |-> w, fallback |-> TRUE]

\* a variant of the loop body whose catch only logs
PushAvailableOnly(list, w, result) ==
    IF WorkflowEntry(w, result).fallback THEN list
    ELSE Append(list, WorkflowEntry(w, result))

\* this.availableWorkflows.push(workflow) / push(fallbackWorkflow)
PushWorkflow(list, w, result) == Append(list, WorkflowEntry(w, result))

\* one turn of the for loop once fetchSchema has settled, and what follows the loop
LoaderContinue(w, result) ==
    /\ availableWorkflows' = PushWorkflow(availableWorkflows, w, result)
    /\ IF loader.i = Len(WorkflowNames)
       THEN /\ schemasLoaded' = TRUE
            /\ isLoadingWorkflows' = FALSE
            /\ loader' = [pc |-> "idle", i |-> 0]
            /\ loads' = [loads EXCEPT !.finished = @ + 1]
       ELSE /\ loader' = [pc |-> "loop", i |-> loader.i + 1]
            /\ UNCHANGED <<schemasLoaded, isLoadingWorkflows, loads>>

\* DynamicWorkflowManager.fetchAvailableWorkflows is called
CallFetchAvailableWorkflows ==
    /\ loads.started + loads.skipped < MaxLoads
    /\ IF isLoadingWorkflows
       THEN /\ loads' = [loads EXCEPT !.skipped = @ + 1]
            /\ UNCHANGED <<availableWorkflows, schemasLoaded, isLoadingWorkflows, loader>>
       ELSE /\ isLoadingWorkflows' = TRUE
            /\ availableWorkflows' = <<>>
            /\ schemasLoaded' = FALSE
            /\ loader' = [pc |-> "loop", i |-> 1]
            /\ loads' = [loads EXCEPT !.started = @ + 1]
    /\ UNCHANGED <<schemaCache, inflight, requests>>
    /\ FetchFrame

\* the loop calls fetchSchema(workflowName): a cache hit settles at once
LoaderFetch ==
    /\ loader.pc = "loop"
    /\ LET w == WorkflowNames[loader.i] IN
       IF w \in DOMAIN schemaCache
       THEN /\ LoaderContinue(w, [thrown |-> FALSE, schema |-> Obj(schemaCache[w])])
            /\ UNCHANGED requests
       ELSE /\ SendRequest(w)
            /\ loader' = [loader EXCEPT !.pc = "waiting"]
            /\ UNCHANGED <<availableWorkflows, schemasLoaded, isLoadingWorkflows, loads>>
    /\ UNCHANGED <<schemaCache, inflight>>
    /\ FetchFrame

\* the response of the loop's fetchSchema arrives
LoaderResponse ==
    /\ loader.pc = "waiting"
    /\ \E kind \in Responses :
          /\ schemaCache' = CacheAfterResponse(schemaCache, WorkflowNames[loader.i], kind)
          /\ LoaderContinue(WorkflowNames[loader.i],
                            FetchResult(WorkflowNames[loader.i], kind))
    /\ UNCHANGED <<inflight, requests>>
    /\ FetchFrame

\* fetchSchema(workflowName) called by selectSchema or by ArrayManager.addArrayItem
FetchSchemaCall ==
    /\ loads.fetches < MaxFetchCalls
    /\ \E caller \in {"selectSchema", "arrayManager"}, w \in Workflows :
          IF w \in DOMAIN schemaCache
          THEN UNCHANGED <<inflight, requests>>
          ELSE /\ SendRequest(w)
               /\ inflight' = inflight \cup {[id |-> loads.fetches, caller |-> caller, w |-> w]}
    /\ loads' = [loads EXCEPT !.fetches = @ + 1]
    /\ UNCHANGED <<schemaCache, availableWorkflows, schemasLoaded, isLoadingWorkflows, loader>>
    /\ FetchFrame

\* the response of such a call arrives
FetchSchemaRespond ==
    /\ \E c \in inflight, kind \in Responses :
          /\ inflight' = inflight \ {c}
          /\ schemaCache' = CacheAfterResponse(schemaCache, c.w, kind)
    /\ UNCHANGED <<availableWorkflows, schemasLoaded, isLoadingWorkflows, loader, requests,
                   loads>>
    /\ FetchFrame

FetchNext ==
    \/ CallFetchAvailableWorkflows
    \/ LoaderFetch
    \/ LoaderResponse
    \/ FetchSchemaCall
    \/ FetchSchemaRespond

FetchSpec == Init /\ [][FetchNext]_vars

\* C13: each workflow's schema is requested from the network at most once per
\* session: for any interleaving of fetchSchema calls through the shared cache at
\* most one request is issued per workflow name, later calls are served from the cache.
C13_SchemaRequestedAtMostOnce ==
    \A w \in DOMAIN requests : requests[w] <= 1

\* C16: whatever subset of the schema fetches fails, fetchAvailableWorkflows ends
\* with exactly one entry per configured workflow name in availableWorkflows, in
\* the configured order, with schemasLoaded true and the _isLoadingWorkflows guard
\* released; a call made while another is in progress changes nothing.
C16_WorkflowListSurvivesFailedFetches ==
    /\ [](loads.finished > 0 /\ loader.pc = "idle" =>
            /\ [i \in DOMAIN availableWorkflows |-> availableWorkflows[i].name] = WorkflowNames
            /\ schemasLoaded
            /\ ~isLoadingWorkflows)
    /\ [][loads'.skipped # loads.skipped =>
            UNCHANGED <<availableWorkflows, schemasLoaded, isLoadingWorkflows, loader,
                        schemaCache, inflight, requests>>]_vars

\* a load has finished with some schemas unavailable and some available, and a
\* second call was made while it was running
C16_Witness_FinishedWithFallbacks ==
    /\ loads.finished > 0 /\ loads.skipped > 0 /\ loader.pc = "idle"
    /\ \E i \in DOMAIN availableWorkflows : availableWorkflows[i].fallback
    /\ \E i \in DOMAIN availableWorkflows : ~availableWorkflows[i].fallback

(***************************************************************************)
(* DataManager and its mirror in localStorage.  Every mutation ends with   *)
(* saveToStorage; loadFromStorage and clearStorage are called by the page. *)
(* The browser may refuse any access to localStorage (quota, denied        *)
(* access): the access then throws.                                        *)
(***************************************************************************)
MaxDataCalls == 3

\* the schema names the callers use; "drafts" is never written
DataSchemas == Workflows \cup {"drafts"}

\* what localStorage.getItem returns for a key that is not stored
NoItem == [j |-> "none"]

\* JSON.stringify(this.formData)
StringifyMap(fd) == JSON_stringify(Obj([s \in DOMAIN fd |-> Obj(fd[s])]))

\* JSON.parse(stored)
ParseMap(stored) ==
    [s \in DOMAIN JSON_parse(stored).f |-> JSON_parse(stored).f[s].f]

\* saveToStorage: the setItem is inside a try whose catch only warns
DM_saveToStorage(fd, stored, fails) == IF fails THEN stored ELSE StringifyMap(fd)

\* loadFromStorage: the map it leaves, the catch resets the map
DM_loadFromStorage(fd, stored, fails) ==
    IF fails THEN <<>>
    ELSE IF stored = NoItem THEN fd
    ELSE ParseMap(stored)

\* clearStorage: removeItem is outside any try
DM_clearStorage(stored, fails) ==
    IF fails THEN [raised |-> TRUE, stored |-> stored]
    ELSE [raised |-> FALSE, stored |-> NoItem]

\* a variant of getFormDataForSchema that creates the tree it did not find
GetOrCreateFormData(fd, s) ==
    [fd |-> EnsureSchema(fd, s), value |-> DM_getFormDataForSchema(fd, s)]

\* getFormDataForSchema as a call: the map it leaves and the value it returns
GetFormDataCall(fd, s) == [fd |-> fd, value |-> DM_getFormDataForSchema(fd, s)]

DataCall(op, s, failed, raised, expect, value) ==
    /\ persist.n < MaxDataCalls
    /\ persist' = [op |-> op, n |-> persist.n + 1, s |-> s, failed |-> failed,
                   raised |-> raised, pre |-> formData, expect |-> expect, value |-> value]

DataFrame ==
    UNCHANGED <<schemaCache, fieldCache, currentSchema, formHtml, blocks, rootSel, timers,
                nextUid, owner, last, scen, uni, pristine, selects, acts, exported,
                refVars, keyVars, fetchVars, renderVars, submitVars, lateVars>>

\* DataManager.updateFormData(currentSchema, fieldName, value)
UpdateFormData ==
    \E s \in Workflows, value \in {Str("x"), Num(7)}, fails \in BOOLEAN :
        /\ formData' = DM_updateFormData(formData, s, "region", value)
        /\ storage' = DM_saveToStorage(formData', storage, fails)
        /\ DataCall("save", s, fails, FALSE,
                    DM_updateFormData(formData, s, "region", value), <<>>)
        /\ DataFrame

\* DataManager.loadFromStorage()
LoadFromStorage ==
    \E fails \in BOOLEAN :
        /\ formData' = DM_loadFromStorage(formData, storage, fails)
        /\ DataCall("load", "", fails, FALSE, formData, <<>>)
        /\ UNCHANGED storage
        /\ DataFrame

\* DataManager.clearStorage()
ClearStorage ==
    \E fails \in BOOLEAN :
        /\ storage' = DM_clearStorage(storage, fails).stored
        /\ DataCall("clear", "", fails, DM_clearStorage(storage, fails).raised, formData, <<>>)
        /\ UNCHANGED formData
        /\ DataFrame

\* DataManager.getFormDataForSchema(currentSchema)
GetFormDataForSchema ==
    \E s \in DataSchemas :
        /\ formData' = GetFormDataCall(formData, s).fd
        /\ DataCall("read", s, FALSE, FALSE, formData, GetFormDataCall(formData, s).value)
        /\ UNCHANGED storage
        /\ DataFrame

DataNext ==
    \/ UpdateFormData
    \/ LoadFromStorage
    \/ ClearStorage
    \/ GetFormDataForSchema

DataSpec == Init /\ [][DataNext]_vars

\* C14: a storage failure in a DataManager persistence step (write after a mutation,
\* load, clear) is never raised to the caller and never changes or rolls back the
\* in-memory map: after a mutation whose write fails the map holds the mutation.
C14_StorageFailureLeavesMapAlone ==
    persist.failed => (~persist.raised /\ formData = persist.expect)

RenderKeys == <<"name", "quantity", "agree">>

\* the component each property is rendered as by ImprovedDynamicFormGenerator
UiComponent(fieldName) ==
    CASE fieldName = "name" -> "text"
      [] fieldName = "quantity" -> "number"
      [] OTHER -> "checkbox"

\* ui_metadata.display_order: absent, or a list of names
DisplayOrders ==
    {[given |-> FALSE, order |-> <<>>],
     [given |-> TRUE, order |-> <<"agree", "name", "quantity">>],
     [given |-> TRUE, order |-> <<"quantity", "name">>],
     [given |-> TRUE, order |-> <<"name", "name", "quantity", "agree">>],
     [given |-> TRUE, order |-> <<"name", "colour", "quantity", "agree">>],
     [given |-> TRUE, order |-> <<>>]}

RenderModels ==
    {[properties |-> RenderKeys, required |-> r, display_order |-> d] :
        r \in SUBSET {RenderKeys[i] : i \in DOMAIN RenderKeys}, d \in DisplayOrders}

Declared(model) == {model.properties[i] : i \in DOMAIN model.properties}

\* a variant that always walks the keys of properties
KeysOnly(model) == model.properties

\* model.ui_metadata?.display_order || Object.keys(model.properties)
DisplayOrderOf(model) ==
    IF model.display_order.given THEN model.display_order.order ELSE model.properties

\* for (const fieldName of displayOrder) { const field = properties[fieldName]; if (field) ... }
FieldsWalked(model) ==
    SelectSeq(DisplayOrderOf(model), LAMBDA fieldName : fieldName \in Declared(model))

\* one emitted fragment: the field it is for, whether it shows the required marker and
\* whether its control carries the native required attribute
Fragment(fieldName, marker, attr) == [name |-> fieldName, marker |-> marker, attr |-> attr]

\* DynamicWorkflowManager.generateFieldHtml and ArrayManager.generateArrayItemFieldHtml:
\* the label and the control are emitted without looking at the required list
PlainFieldHtml(fieldName) == Fragment(fieldName, FALSE, FALSE)

\* ImprovedDynamicFormGenerator.analyzeField
analyzeField(fieldName, model) ==
    [name |-> fieldName, required |-> fieldName \in model.required,
     uiComponent |-> UiComponent(fieldName)]

\* ImprovedDynamicFormGenerator.generateFieldHTML: inputs, textareas and selects carry the
\* marker and the attribute, checkboxes and arrays only the marker
ImprovedFieldHTML(field) ==
    Fragment(field.name, field.required,
             field.required /\ field.uiComponent \notin {"checkbox", "dynamic-array"})

\* DynamicFormGenerator.parseFieldDefinition
parseFieldDefinition(fieldName) == [name |-> fieldName, required |-> FALSE]

\* DynamicFormGenerator.generateDynamicFieldHTML
generateDynamicFieldHTML(field) == Fragment(field.name, field.required, field.required)

\* the fragments a render path emits for a model
RenderedBy(path, model) ==
    CASE path = "generateFormFromSchema" ->
           [i \in DOMAIN FieldsWalked(model) |-> PlainFieldHtml(FieldsWalked(model)[i])]
      [] path = "generateArrayItemHtml" ->
           [i \in DOMAIN FieldsWalked(model) |-> PlainFieldHtml(FieldsWalked(model)[i])]
      [] path = "generateModelFields" ->
           [i \in DOMAIN FieldsWalked(model) |->
               ImprovedFieldHTML(analyzeField(FieldsWalked(model)[i], model))]
      [] OTHER ->
           [i \in DOMAIN model.properties |->
               generateDynamicFieldHTML(parseFieldDefinition(model.properties[i]))]

RenderFrame ==
    UNCHANGED <<formVars, refVars, keyVars, fetchVars, storeVars, submitVars, lateVars>>

RenderModel(path) ==
    \E model \in RenderModels :
        /\ rendered' = [path |-> path, model |-> model, fragments |-> RenderedBy(path, model)]
        /\ RenderFrame

\* DynamicWorkflowManager.generateFormFromSchema
GenerateFormFromSchema == RenderModel("generateFormFromSchema")

\* ArrayManager.generateArrayItemHtml
GenerateArrayItemHtml == RenderModel("generateArrayItemHtml")

\* ImprovedDynamicFormGenerator.generateModelFields
GenerateModelFields == RenderModel("generateModelFields")

\* DynamicFormGenerator.extractItemFields and generateDynamicItemHTML
GenerateDynamicItemHTML == RenderModel("generateDynamicItemHTML")

RenderNext ==
    \/ GenerateFormFromSchema
    \/ GenerateArrayItemHtml
    \/ GenerateModelFields
    \/ GenerateDynamicItemHTML

RenderSpec == Init /\ [][RenderNext]_vars

FragmentNames == [i \in DOMAIN rendered.fragments |-> rendered.fragments[i].name]

\* C17: in every render path each field named in the model's required list is
\* rendered with the required marker and the native required attribute, and no
\* field outside that list is.
C17_RequiredFieldsAreMarked ==
    rendered.path # "none" =>
        \A i \in DOMAIN rendered.fragments :
            /\ rendered.fragments[i].marker <=> rendered.fragments[i].name \in rendered.model.required
            /\ rendered.fragments[i].attr <=> rendered.fragments[i].name \in rendered.model.required

\* the three paths that walk the display order
WalkingPaths == {"generateFormFromSchema", "generateArrayItemHtml", "generateModelFields"}

MaxSubmits == 3

\* schema.forms[formId].ui_config.type of the forms on the page ("" when there is none)
FormKind(formId) ==
    CASE formId = "bike_sales" -> "dynamic_management"
      [] formId = "stores" -> "store_management"
      [] OTHER -> ""

FormIds == {"bike_details", "customer_details", "bike_sales", "stores"}

\* the inputs of a form: a required text input and an optional one, as the user left them
FormInputs ==
    {<<[name |-> "title", required |-> TRUE, value |-> v1],
       [name |-> "notes", required |-> FALSE, value |-> v2]>> : v1 \in {"", "x"}, v2 \in {"", "y"}}

\* input.checkValidity()
CheckValidity(input) == ~(input.required /\ input.value = "")

AllValid(inputs) == \A i \in DOMAIN inputs : CheckValidity(inputs[i])

\* generateFormHTML: only the default form wraps its fields in a <form> element
HasFormElement(formId) == FormKind(formId) = ""

\* validateForm: false when `[data-form-id="..."] form` matches nothing
validateForm(formId, inputs) == HasFormElement(formId) /\ AllValid(inputs)

\* collectFormData, default form: name -> value of the inputs that are not empty
collectFormData(formId, inputs) ==
    Obj([name \in {inputs[i].name : i \in {i \in DOMAIN inputs : inputs[i].value # ""}} |->
            Str(inputs[CHOOSE i \in DOMAIN inputs : inputs[i].name = name].value)])

\* the detail of the dynamicFormSubmitted event
EventDetail(formId, collected) ==
    [formId |-> Str(formId), formData |-> collected, schema |-> Str(FormKind(formId))]

\* const { formId, data } = event.detail
ListenerReadsData(detail) == Prop(detail, "data")

\* the listener: app.dynamicFormData[formId] = data
OnDynamicFormSubmitted(recorded, detail) ==
    Put(recorded, detail.formId.s, ListenerReadsData(detail))

SubmitFrame ==
    UNCHANGED <<formVars, refVars, keyVars, fetchVars, storeVars, renderVars, lateVars>>

\* DynamicFormGenerator.submitForm(formId)
SubmitForm ==
    \E formId \in FormIds, inputs \in FormInputs :
        /\ submitted.n < MaxSubmits
        /\ IF validateForm(formId, inputs)
           THEN /\ dynamicFormData' =
                       OnDynamicFormSubmitted(dynamicFormData,
                           EventDetail(formId, collectFormData(formId, inputs)))
                /\ submitted' = [n |-> submitted.n + 1, formId |-> formId, inputs |-> inputs,
                                 dispatched |-> TRUE,
                                 collected |-> collectFormData(formId, inputs)]
           ELSE /\ UNCHANGED dynamicFormData
                /\ submitted' = [n |-> submitted.n + 1, formId |-> formId, inputs |-> inputs,
                                 dispatched |-> FALSE, collected |-> Undefined]
        /\ SubmitFrame

SubmitNext == SubmitForm

SubmitSpec == Init /\ [][SubmitNext]_vars

\* C19: when submitForm(formId) passes validation, the page-level
\* dynamicFormSubmitted handler records under formId exactly the data that
\* collectFormData(formId) returned for that form.
C19_HandlerRecordsCollectedData ==
    submitted.dispatched =>
        /\ submitted.formId \in DOMAIN dynamicFormData
        /\ dynamicFormData[submitted.formId] = submitted.collected

\* C20: for every form kind (default, dynamic_management, store_management)
\* submitForm dispatches dynamicFormSubmitted if and only if every input of the
\* form satisfies its validation constraints; a form whose inputs are all valid
\* is never blocked.
C20_DispatchedIffAllInputsValid ==
    submitted.n > 0 => (submitted.dispatched <=> AllValid(submitted.inputs))

(***************************************************************************)
(* The Reference Resolver across documents (RefSpec).                      *)
(***************************************************************************)

\* C27: the result of resolveReference(ref) depends only on ref and on the
\* document currently being rendered: after generateForm(schema1) and then
\* generateForm(schema2) on the same generator, every ref resolves to the model
\* definition of schema2, never to one of schema1.
C27_ResolutionUsesTheCurrentDocument ==
    \A i \in DOMAIN calls :
        calls[i].doc # Null =>
            calls[i].result = ResolveUncached(calls[i].doc, calls[i].ref)

(***************************************************************************)
(* ImprovedDynamicFormGenerator.generateForm, from the input it is handed  *)
(* to the result it returns.  A schema document is an object with a        *)
(* workflow_name and a schemas object; schemas lists its models in         *)
(* insertion order and a model lists its properties in insertion order.    *)
(***************************************************************************)
MaxGenerated == 2

\* a property of a model: its type, items.$ref and $ref (<<>> when it has none)
GenField(name, type, itemsRef, ref) ==
    [name |-> name, type |-> type, itemsRef |-> itemsRef, ref |-> ref]

fTitle == GenField("title", "string", <<>>, <<>>)
fStores == GenField("stores", "array", SchemasPrefix \o nStore, <<>>)
fSales == GenField("sales", "array", SchemasPrefix \o nGhost, <<>>)
fOwner == GenField("owner", "object", <<>>, DefsPrefix \o nStore)

GenFields == <<fTitle, fStores, fSales, fOwner>>

\* the properties a model may declare: any of the four, in the order above
PropertyLists ==
    {SelectSeq(GenFields, LAMBDA f : f.name \in keep) :
        keep \in SUBSET {"title", "stores", "sales", "owner"}}

ModelDef(title, properties) == [t |-> "object", title |-> title, properties |-> properties]

ModelEntry(name, def) == [name |-> name, def |-> def]

SchemasObject(models) == [t |-> "object", models |-> models]

\* the schemas member of a document: absent, not an object, empty, with a null model,
\* or a first model (RootModel or Rider) followed by Store
SchemasValues ==
    {Undefined, Str("schemas"), SchemasObject(<<>>),
     SchemasObject(<<ModelEntry(nRootModel, ModelDef("root", <<fTitle>>)),
                     ModelEntry(nStore, Null)>>)}
    \cup {SchemasObject(<<ModelEntry(first, ModelDef("first", properties)),
                          ModelEntry(nStore, ModelDef("store", <<fTitle>>))>>) :
             first \in {nRootModel, nRider}, properties \in PropertyLists}

GenDoc(workflowName, schemas) ==
    [t |-> "object", workflow_name |-> workflowName, schemas |-> schemas]

\* what generateForm may be handed
GenInputs ==
    {Null, Undefined, Str("schema"), Num(7)}
    \cup {GenDoc(w, s) : w \in {Undefined, Str("bike_insights")}, s \in SchemasValues}

IsDoc(schema) == schema.t = "object" /\ "schemas" \in DOMAIN schema

\* schema.schemas and schema.workflow_name of any input
SchemasOf(schema) == IF IsDoc(schema) THEN schema.schemas ELSE Undefined
WorkflowNameOf(schema) == IF IsDoc(schema) THEN schema.workflow_name ELSE Undefined

HasModels(schemas) == schemas.t = "object" /\ "models" \in DOMAIN schemas

ModelsOf(schema) == IF HasModels(SchemasOf(schema)) THEN SchemasOf(schema).models ELSE <<>>

ModelNames(schema) == {ModelsOf(schema)[i].name : i \in DOMAIN ModelsOf(schema)}

\* rawSchema as the Reference Resolver reads it: schemas by name, no definitions section
AsDocument(schema) ==
    [schemas |-> [n \in ModelNames(schema) |->
                     ModelsOf(schema)[CHOOSE i \in DOMAIN ModelsOf(schema) :
                                         ModelsOf(schema)[i].name = n].def],
     definitions |-> <<>>]

\* what the try block of generateForm leaves: the fragments of the form, or an exception,
\* and the Reference Cache as the resolutions made on the way left it
Outcome(thrown, type, message, fragments, cache) ==
    [thrown |-> thrown, type |-> type, message |-> message, fragments |-> fragments,
     cache |-> cache]

Threw(type, message, cache) == Outcome(TRUE, type, message, <<>>, cache)

\* validateSchemaIntegrity
validateSchemaIntegrity(schema) ==
    IF ~Truthy(schema) \/ ~TypeofObject(schema)
    THEN <<"Schema must be a valid object">>
    ELSE (IF Truthy(WorkflowNameOf(schema)) THEN <<>>
          ELSE <<"Schema must have a workflow_name">>)
         \o (IF ~Truthy(SchemasOf(schema)) \/ ~TypeofObject(SchemasOf(schema))
             THEN <<"Schema must have a schemas object">>
             ELSE IF ModelsOf(schema) = <<>>
             THEN <<"Schema must contain at least one model definition">>
             ELSE <<>>)

\* errors.join(', ')
RECURSIVE Join(_, _)
Join(errors, i) ==
    IF i > Len(errors) THEN ""
    ELSE IF i = Len(errors) THEN errors[i]
    ELSE errors[i] \o ", " \o Join(errors, i + 1)

\* detectSchemaType(schema).type
detectSchemaType(schema) ==
    IF ~Truthy(SchemasOf(schema)) \/ ~TypeofObject(SchemasOf(schema)) THEN "invalid"
    ELSE IF nRootModel \in ModelNames(schema) THEN "unified"
    ELSE "multi-model"

\* analyzeSchema: reading a member of null or undefined raises a TypeError, in
\* schema.workflow_name or, for a null model, in hasArrayProperties or extractModels;
\* an invalid schema raises the validation error
analyzeSchema(schema, cache) ==
    IF schema \in {Null, Undefined}
    THEN Threw("TypeError", "Cannot read properties of " \o schema.t, cache)
    ELSE IF \E i \in DOMAIN ModelsOf(schema) : ModelsOf(schema)[i].def = Null
    THEN Threw("TypeError", "Cannot read properties of null", cache)
    ELSE IF validateSchemaIntegrity(schema) # <<>>
    THEN Threw("Error", "Invalid schema: " \o Join(validateSchemaIntegrity(schema), 1), cache)
    ELSE Outcome(FALSE, "", "", <<>>, cache)

\* mapUIComponent of a property without ui_component, format or enum
mapUIComponent(fieldDef) ==
    CASE fieldDef.type = "string" -> "text"
      [] fieldDef.type = "array" -> "dynamic-array"
      [] OTHER -> "text"

\* resolveReference as generateForm's field analysis calls it: the cache it leaves
ResolveInto(cache, schema, ref) ==
    IF ref \in DOMAIN cache THEN cache
    ELSE IF Truthy(ResolveUncached(AsDocument(schema), ref))
    THEN Put(cache, ref,
             CachedValue(AsDocument(schema), ref, ResolveUncached(AsDocument(schema), ref)))
    ELSE cache

\* analyzeField: processArrayConfig resolves items.$ref, processObjectConfig resolves $ref
CacheAfterAnalyzeField(cache, schema, fieldDef) ==
    IF fieldDef.type = "array"
    THEN (IF fieldDef.itemsRef # <<>> THEN ResolveInto(cache, schema, fieldDef.itemsRef)
          ELSE cache)
    ELSE IF fieldDef.type = "object" \/ fieldDef.ref # <<>>
    THEN (IF fieldDef.ref # <<>> THEN ResolveInto(cache, schema, fieldDef.ref) ELSE cache)
    ELSE cache

\* one fragment of the generated form: the field, its component, and whether it holds
\* an items container and an add control
GenFragment(fieldDef, container, addControl) ==
    [name |-> fieldDef.name, component |-> mapUIComponent(fieldDef),
     container |-> container, addControl |-> addControl]

\* generateArrayField: building the fragment calls this.generateArrayItemFields, which
\* the class does not define
generateArrayField(fieldDef, cache) ==
    Threw("TypeError", "this.generateArrayItemFields is not a function", cache)

\* generateModelFields from property i on: analyzeField, then generateFieldHTML
RECURSIVE generateModelFields(_, _, _, _, _)
generateModelFields(properties, i, schema, cache, fragments) ==
    IF i > Len(properties) THEN Outcome(FALSE, "", "", fragments, cache)
    ELSE IF mapUIComponent(properties[i]) = "dynamic-array"
    THEN generateArrayField(properties[i],
                            CacheAfterAnalyzeField(cache, schema, properties[i]))
    ELSE generateModelFields(properties, i + 1, schema,
                             CacheAfterAnalyzeField(cache, schema, properties[i]),
                             Append(fragments, GenFragment(properties[i], FALSE, FALSE)))

\* identifyFormSections(rootModel).length: one section per array property, one in all
\* when there is none
SectionCount(properties) ==
    IF \E i \in DOMAIN properties : properties[i].type = "array"
    THEN Cardinality({i \in DOMAIN properties : properties[i].type = "array"})
    ELSE 1

\* generateUnifiedForm: the single-section form, or the tabbed form, which calls
\* this.generateSectionFields, which the class does not define
generateUnifiedForm(schema, cache) ==
    IF SectionCount(AsDocument(schema).schemas[nRootModel].properties) <= 1
    THEN generateModelFields(AsDocument(schema).schemas[nRootModel].properties, 1,
                             schema, cache, <<>>)
    ELSE Threw("TypeError", "this.generateSectionFields is not a function", cache)

\* generateMultiModelForm from model i on: one card per model
RECURSIVE generateMultiModelForm(_, _, _, _)
generateMultiModelForm(schema, i, cache, fragments) ==
    IF i > Len(ModelsOf(schema)) THEN Outcome(FALSE, "", "", fragments, cache)
    ELSE IF generateModelFields(ModelsOf(schema)[i].def.properties, 1, schema, cache,
                                fragments).thrown
    THEN generateModelFields(ModelsOf(schema)[i].def.properties, 1, schema, cache, fragments)
    ELSE generateMultiModelForm(schema, i + 1,
             generateModelFields(ModelsOf(schema)[i].def.properties, 1, schema, cache,
                                 fragments).cache,
             generateModelFields(ModelsOf(schema)[i].def.properties, 1, schema, cache,
                                 fragments).fragments)

\* the try block of generateForm
TryGenerate(schema, cache) ==
    IF analyzeSchema(schema, cache).thrown THEN analyzeSchema(schema, cache)
    ELSE IF detectSchemaType(schema) = "unified" THEN generateUnifiedForm(schema, cache)
    ELSE IF detectSchemaType(schema) = "multi-model"
    THEN generateMultiModelForm(schema, 1, cache, <<>>)
    ELSE Threw("Error", "Unsupported schema type: " \o detectSchemaType(schema), cache)

\* generateErrorForm
generateErrorForm(errorMessage) == [kind |-> "error", message |-> errorMessage, fragments |-> <<>>]

\* wrapFormWithContainer
wrapFormWithContainer(fragments) == [kind |-> "form", message |-> "", fragments |-> fragments]

GenResult(returned, success, html, error) ==
    [returned |-> returned, success |-> success, html |-> html, error |-> error]

\* a variant whose catch clause lets a TypeError through to the caller
CatchValidationErrorsOnly(outcome) ==
    IF ~outcome.thrown
    THEN GenResult(TRUE, TRUE, wrapFormWithContainer(outcome.fragments), Undefined)
    ELSE IF outcome.type = "TypeError"
    THEN GenResult(FALSE, FALSE, generateErrorForm(""), Undefined)
    ELSE GenResult(TRUE, FALSE, generateErrorForm(outcome.message), Str(outcome.message))

\* generateForm's try / catch: what the caller gets for what the try block left
CatchAll(outcome) ==
    IF ~outcome.thrown
    THEN GenResult(TRUE, TRUE, wrapFormWithContainer(outcome.fragments), Undefined)
    ELSE GenResult(TRUE, FALSE, generateErrorForm(outcome.message), Str(outcome.message))

GenFrame ==
    UNCHANGED <<formVars, calls, keyVars, fetchVars, storeVars, renderVars, submitVars,
                heapVars, switchVars, evalVars>>

\* ImprovedDynamicFormGenerator.initialize(schema), which is generateForm(schema)
Initialize ==
    \E schema \in GenInputs :
        /\ generated.n < MaxGenerated
        /\ rawSchema' = schema
        /\ referenceCache' = TryGenerate(schema, referenceCache).cache
        /\ generated' = [n |-> generated.n + 1, input |-> schema,
                         result |-> CatchAll(TryGenerate(schema, referenceCache))]
        /\ GenFrame

GenNext == Initialize

GenSpec == Init /\ [][GenNext]_vars

\* the input is structurally valid: an object with a workflow_name and a non-empty
\* schemas object whose models are objects
StructurallyValid(schema) ==
    /\ IsDoc(schema)
    /\ Truthy(WorkflowNameOf(schema))
    /\ ModelsOf(schema) # <<>>
    /\ \A i \in DOMAIN ModelsOf(schema) : ModelsOf(schema)[i].def # Null

\* C21: for every structurally valid schema whose models declare an array field,
\* generateForm returns success = true and the array field is rendered as a
\* container plus an add control.
C21_ArrayFieldRenderedAsContainerAndAddControl ==
    (generated.n > 0 /\ StructurallyValid(generated.input)) =>
        \A i \in DOMAIN ModelsOf(generated.input) :
            \A j \in DOMAIN ModelsOf(generated.input)[i].def.properties :
                ModelsOf(generated.input)[i].def.properties[j].type = "array" =>
                    /\ generated.result.success
                    /\ \E k \in DOMAIN generated.result.html.fragments :
                          /\ generated.result.html.fragments[k].name =
                                ModelsOf(generated.input)[i].def.properties[j].name
                          /\ generated.result.html.fragments[k].container
                          /\ generated.result.html.fragments[k].addControl

\* the inputs the generator is to reject
Rejected(schema) ==
    \/ ~IsDoc(schema)
    \/ ~Truthy(WorkflowNameOf(schema))
    \/ ModelsOf(schema) = <<>>

\* C22: generateForm never throws for any input (null, non-object, missing
\* workflow_name, missing or empty schemas, unresolvable references): every
\* failure is returned as a result with success = false, an error message and an
\* error fragment as html.
C22_GenerateFormAlwaysReturnsAResult ==
    generated.n > 0 =>
        /\ generated.result.returned
        /\ Rejected(generated.input) => ~generated.result.success
        /\ ~generated.result.success =>
              /\ generated.result.error.t = "string"
              /\ generated.result.error.s # ""
              /\ generated.result.html = generateErrorForm(generated.result.error.s)

\* C22 witness: a document without workflow_name and without schemas was handed in and
\* came back as a failure naming both
C22_Witness_InvalidDocumentRejected ==
    /\ generated.n > 0
    /\ generated.input = GenDoc(Undefined, Undefined)
    /\ ~generated.result.success
    /\ generated.result.error =
         Str("Invalid schema: Schema must have a workflow_name, Schema must have a schemas object")

(***************************************************************************)
(* Edits fired from rendered item blocks (Spec).                           *)
(***************************************************************************)
\* C23: after any sequence of adds and removes on an array field, a field edit
\* fired from the rendered block of an item updates the stored entry of that
\* same item and changes no other entry of the array.
C23_EditReachesTheEntryOfItsBlock ==
    last.op = "edit" =>
        /\ last.idx < Len(last.preOwn)
        /\ ArrGet(last.preOwn, last.idx) = OwnerMark(last.uid)
        /\ StoredArr(owner, last.s, last.field) = last.preOwn
        /\ Prop(ArrGet(StoredArr(formData, last.s, last.field), last.idx).f, last.prop)
             = last.val

\* C24: only add and remove change the length of a stored array: no field-edit or
\* union-select operation fired from a rendered item block changes the array's
\* length or creates holes in it, after any sequence of adds and removes.
C24_EditsKeepArrayLength ==
    last.op \in {"edit", "editNested", "editUnion", "selectUnion"} =>
        /\ StoredLen(formData, last.s, last.field) = last.preLen
        /\ \A i \in DOMAIN StoredArr(formData, last.s, last.field) :
              StoredArr(formData, last.s, last.field)[i] # Undefined

(***************************************************************************)
(* The Form Data Store by identity.  A cached schema document is the       *)
(* object JSON parsing made of the response, and DataManager copies its    *)
(* default_values with Object.assign and object spread, which copy one     *)
(* level: a nested object of the defaults is the same object in every tree *)
(* and item seeded from them.  The heap holds the objects; a value is a    *)
(* string, a number or the address of an object.                           *)
(***************************************************************************)
MaxHeapOps == 4

At(n) == [t |-> "at", at |-> n]

HObj(f) == [kind |-> "object", f |-> f, a |-> <<>>]
HArr(a) == [kind |-> "array", f |-> <<>>, a |-> a]

\* the schema document "shop" as fetched: RootModel.default_values is
\* {title: "untitled", owner: {name: "anon"}}, RootModel.stores is an array of Store
\* and Store.default_values is {name: "new", address: {city: "Oslo"}}
RootDefaults == 1
StoreDefaults == 3

FetchedHeap ==
    <<HObj([title |-> Str("untitled"), owner |-> At(2)]),
      HObj([name |-> Str("anon")]),
      HObj([name |-> Str("new"), address |-> At(4)]),
      HObj([city |-> Str("Oslo")])>>

\* the value at an address written out in full
RECURSIVE Deep(_, _)
Deep(h, v) ==
    IF v.t # "at" THEN v
    ELSE IF h[v.at].kind = "array"
    THEN Arr([i \in DOMAIN h[v.at].a |-> Deep(h, h[v.at].a[i])])
    ELSE Obj([k \in DOMAIN h[v.at].f |-> Deep(h, h[v.at].f[k])])

\* target[k] = v on the object at an address
HeapSet(h, at, k, v) == [h EXCEPT ![at].f = Put(@, k, v)]

\* the heap and the roots an operation leaves
Heaped(h, r) == [h |-> h, r |-> r]

\* if (!this.formData[currentSchema]) this.formData[currentSchema] = {}
HeapEnsureSchema(h, r, s) ==
    IF s \in DOMAIN r THEN Heaped(h, r)
    ELSE Heaped(Append(h, HObj(EmptyObj)), Put(r, s, Len(h) + 1))

\* if (!holder[k]) holder[k] = <a new object or array>
HeapEnsureMember(h, at, k, fresh) ==
    IF k \in DOMAIN h[at].f /\ (h[at].f[k].t = "at" \/ Truthy(h[at].f[k])) THEN h
    ELSE HeapSet(Append(h, fresh), at, k, At(Len(h) + 1))

\* DataManager.initializeFormData: Object.assign(this.formData[s], model.default_values)
HeapInitializeFormData(h, r, s, defaults) ==
    LET e == HeapEnsureSchema(h, r, s) IN
    Heaped([e.h EXCEPT ![e.r[s]].f = Assign(@, e.h[defaults].f)], e.r)

\* DataManager.resetFormData
HeapResetFormData(h, r, s) == Heaped(Append(h, HObj(EmptyObj)), Put(r, s, Len(h) + 1))

\* DataManager.updateFormData
HeapUpdateFormData(h, r, s, fieldName, value) ==
    LET e == HeapEnsureSchema(h, r, s) IN
    Heaped(HeapSet(e.h, e.r[s], fieldName, value), e.r)

\* DataManager.updateNestedObjectFieldData
HeapUpdateNestedObjectFieldData(h, r, s, parentFieldName, propName, value) ==
    LET e == HeapEnsureSchema(h, r, s)
        h1 == HeapEnsureMember(e.h, e.r[s], parentFieldName, HObj(EmptyObj))
    IN  Heaped(HeapSet(h1, h1[e.r[s]].f[parentFieldName].at, propName, value), e.r)

\* { ...(itemSchema.default_values || {}) }: a new object with the members of the defaults
SpreadInto(h, from) == Append(h, h[from])

\* ArrayManager.addArrayItem on a resolved item model: DataManager.addArrayItem pushes {},
\* then updateArrayItemData(..., '', itemData) puts the spread of the defaults in its place
HeapAddArrayItem(h, r, s, fieldName, defaults) ==
    LET e == HeapEnsureSchema(h, r, s)
        h1 == HeapEnsureMember(e.h, e.r[s], fieldName, HArr(<<>>))
        arr == h1[e.r[s]].f[fieldName].at
        h2 == Append(h1, HObj(EmptyObj))
        h3 == [h2 EXCEPT ![arr].a = Append(@, At(Len(h2)))]
        h4 == SpreadInto(h3, defaults)
    IN  Heaped([h4 EXCEPT ![arr].a[Len(h3[arr].a)] = At(Len(h4))], e.r)

\* the items stored under a field, as addresses
HeapItems(h, r, s, fieldName) ==
    IF s \in DOMAIN r /\ fieldName \in DOMAIN h[r[s]].f /\ h[r[s]].f[fieldName].t = "at"
    THEN h[h[r[s]].f[fieldName].at].a ELSE <<>>

\* DataManager.updateArrayItemData on an item that is stored
HeapUpdateArrayItemData(h, r, s, fieldName, itemIndex, propName, value) ==
    Heaped(HeapSet(h, HeapItems(h, r, s, fieldName)[itemIndex + 1].at, propName, value), r)

\* DataManager.updateArrayItemNestedObjectFieldData on an item that is stored
HeapUpdateArrayItemNestedObjectFieldData(h, r, s, fieldName, itemIndex, parentPropName, nestedPropName, value) ==
    LET item == HeapItems(h, r, s, fieldName)[itemIndex + 1].at
        h1 == HeapEnsureMember(h, item, parentPropName, HObj(EmptyObj))
    IN  Heaped(HeapSet(h1, h1[item].f[parentPropName].at, nestedPropName, value), r)

HeapFrame ==
    UNCHANGED <<formVars, refVars, keyVars, fetchVars, storeVars, renderVars, submitVars,
                genVars, switchVars, evalVars>>

\* the items of stores written out in full
ItemsNow(h, r) ==
    [i \in DOMAIN HeapItems(h, r, "shop", "stores") |->
        Deep(h, HeapItems(h, r, "shop", "stores")[i])]

HeapStep(op, idx, e) ==
    /\ heapLast.n < MaxHeapOps
    /\ heap' = e.h
    /\ formRoots' = e.r
    /\ heapLast' = [op |-> op, prev |-> heapLast.op, n |-> heapLast.n + 1, idx |-> idx,
                    pre |-> ItemsNow(heap, formRoots)]
    /\ HeapFrame

\* the schema is selected: initializeFormData(currentSchema, rootModel)
InitializeFormData ==
    HeapStep("initialize", 0, HeapInitializeFormData(heap, formRoots, "shop", RootDefaults))

\* the form is reset
ResetFormData == HeapStep("reset", 0, HeapResetFormData(heap, formRoots, "shop"))

\* the title input of the root form
EditTitle ==
    HeapStep("editRoot", 0, HeapUpdateFormData(heap, formRoots, "shop", "title", Str("x")))

\* the name input of the owner object of the root form
EditOwnerName ==
    HeapStep("editRootNested", 0,
             HeapUpdateNestedObjectFieldData(heap, formRoots, "shop", "owner", "name",
                                             Str("x")))

\* the add control of stores
AddStore ==
    /\ Len(HeapItems(heap, formRoots, "shop", "stores")) < 2
    /\ HeapStep("add", 0, HeapAddArrayItem(heap, formRoots, "shop", "stores", StoreDefaults))

\* the name input of a store
EditStoreName ==
    \E i \in DOMAIN HeapItems(heap, formRoots, "shop", "stores") :
        HeapStep("editItem", i - 1,
                 HeapUpdateArrayItemData(heap, formRoots, "shop", "stores", i - 1, "name",
                                         Str("x")))

\* the city input of the address object of a store
EditStoreCity ==
    \E i \in DOMAIN HeapItems(heap, formRoots, "shop", "stores") :
        HeapStep("editItemNested", i - 1,
                 HeapUpdateArrayItemNestedObjectFieldData(heap, formRoots, "shop", "stores",
                                                          i - 1, "address", "city", Str("x")))

HeapNext ==
    \/ InitializeFormData
    \/ ResetFormData
    \/ EditTitle
    \/ EditOwnerName
    \/ AddStore
    \/ EditStoreName
    \/ EditStoreCity

HeapSpec == Init /\ [][HeapNext]_vars

\* C25: no Form Data Store operation changes a schema document's declared default
\* values: after initializeFormData followed by any sequence of adds, edits and
\* resets, the cached schema's default_values are what they were when fetched, so
\* re-initializing after resetFormData always yields the originally declared
\* defaults.
C25_DeclaredDefaultsAreNeverChanged ==
    /\ Deep(heap, At(RootDefaults)) = Deep(FetchedHeap, At(RootDefaults))
    /\ Deep(heap, At(StoreDefaults)) = Deep(FetchedHeap, At(StoreDefaults))
    /\ (heapLast.op = "initialize" /\ heapLast.prev = "reset") =>
          Deep(heap, At(formRoots["shop"])) = Deep(FetchedHeap, At(RootDefaults))

\* C26: array items are independent: for two distinct items of the same array,
\* both seeded from the item model's default values (including defaults that
\* contain nested objects), editing any field or nested-object field of one item
\* never changes the stored data of the other.
C26_EditingOneItemLeavesTheOthers ==
    heapLast.op \in {"editItem", "editItemNested"} =>
        \A j \in DOMAIN heapLast.pre :
            j # heapLast.idx + 1 => ItemsNow(heap, formRoots)[j] = heapLast.pre[j]

(***************************************************************************)
(* selectSchema step by step.  selectSchema sets currentSchema and awaits  *)
(* the schema; when the schema is not cached the response arrives later,   *)
(* and other selectSchema calls and timers run in between.  What follows   *)
(* the response (the rest of loadSchemaForm, then resetFormData) runs      *)
(* without interruption and reads currentSchema as it is by then.          *)
(***************************************************************************)
MaxSwitches == 2

\* selectSchema(w) up to its first suspension: with the schema cached it runs to its end
CallSelectSchema ==
    \E w \in Workflows :
        /\ selects < MaxSwitches
        /\ selects' = selects + 1
        /\ currentSchema' = w
        /\ UNCHANGED <<nextUid, acts, exported>>
        /\ IF w \in DOMAIN schemaCache
           THEN /\ LoadSchemaForm(w, schemaCache)
                /\ blocks' = <<>>
                /\ rootSel' = <<>>
                /\ UNCHANGED pending
           ELSE /\ pending' = Append(pending, w)
                /\ UNCHANGED <<formData, schemaCache, fieldCache, formHtml, blocks, rootSel,
                               timers, owner, last, scen, uni, pristine>>

\* the response to the request of a waiting selectSchema call arrives
SchemaArrives ==
    \E i \in DOMAIN pending, ok \in BOOLEAN :
        /\ pending' = RemoveAt(pending, i)
        /\ blocks' = <<>>
        /\ rootSel' = <<>>
        /\ UNCHANGED <<currentSchema, selects, nextUid, acts, exported>>
        /\ IF ok
           THEN LoadSchemaFormUnder(pending[i], currentSchema,
                                    Put(schemaCache, pending[i], Backend(pending[i])))
           ELSE /\ formHtml' = NoForm
                /\ formData' = DM_resetFormData(formData, currentSchema)
                /\ owner' = DM_resetFormData(owner, currentSchema)
                /\ UNCHANGED <<schemaCache, fieldCache, timers>>
                /\ Note(LastOp("select", pending[i], "", 0, 0, 0, "failed", "error", "", "",
                               Undefined),
                        -1, NoUni, FALSE)

SwitchIdle ==
    UNCHANGED <<refVars, keyVars, fetchVars, storeVars, renderVars, submitVars, genVars,
                heapVars, evalVars>>

SwitchNext ==
    \/ CallSelectSchema /\ SwitchIdle
    \/ SchemaArrives /\ SwitchIdle
    \/ FireAutoAddFirst /\ RefIdle
    \/ FireAddByName /\ RefIdle

SwitchSpec == Init /\ [][SwitchNext]_vars

\* C28: for any interleaving of selectSchema calls whose schema fetches complete in
\* any order, once all of them have completed the rendered form and title are
\* those of the schema named by currentSchema (the last selected one), and default
\* initialization and field edits are applied to the tree of the schema whose
\* form is shown.
C28_ShownFormIsThatOfCurrentSchema ==
    (selects > 0 /\ pending = <<>> /\ formHtml # NoForm) =>
        /\ formHtml.doc = currentSchema
        /\ formHtml.key = formHtml.doc

\* C29: the auto-add timers scheduled while loading schema A never mutate the tree
\* or the rendered form of a different schema B that was selected before those
\* timers fire: a deferred auto-add acts on the schema it was scheduled for or not
\* at all.
C29_DeferredAutoAddStaysWithItsSchema ==
    [][\A i \in DOMAIN timers :
          (/\ timers[i].kind = "addByName"
           /\ FirstOfKind(i)
           /\ timers' = RemoveAt(timers, i)
           /\ last'.op = "autoadd")
          => \/ timers[i].s = timers[i].root
             \/ (formData' = formData /\ blocks' = blocks)]_vars

(***************************************************************************)
(* promptEvaluationApp.loadDynamicSchema: the three schema endpoints are   *)
(* asked in turn until one answers with a schema; a call that gets none,   *)
(* or one whose structure is not accepted, falls back to loadSampleSchema. *)
(***************************************************************************)
MaxSchemaLoads == 2

SchemaEndpoints == 3

\* what one endpoint can answer: a schema, a JSON document that is no schema, an
\* HTTP error status, or nothing within the 10 seconds of AbortSignal.timeout
EndpointAnswers == {"schema", "notASchema", "httpError", "timeout"}

WorkflowIds == {Null, Str("bike_stock"), Str("bike_sales")}

ErrorMessage(answer) ==
    IF answer = "httpError" THEN "HTTP 500: Internal Server Error"
    ELSE "The operation was aborted due to timeout"

\* promptEvaluationApp.loadSampleSchema()
loadSampleSchema(app) ==
    [app EXCEPT !.schemaLoaded = TRUE, !.schemaError = Null]

\* the catch and finally blocks of loadDynamicSchema
CatchAndFallBack(app, message) ==
    [loadSampleSchema([app EXCEPT
         !.schemaError = Str("Failed to load schema for workflow: " \o message)])
     EXCEPT !.loadingSchema = FALSE]

\* the end of the try block of loadDynamicSchema, then its finally block
SchemaProcessed(app, workflowName) ==
    [app EXCEPT !.schemaLoaded = TRUE,
                !.lastLoadedWorkflow = Str(workflowName),
                !.loadingSchema = FALSE]

\* promptEvaluationApp.getSchemaStatus().type
getSchemaStatus(app) ==
    IF app.loadingSchema THEN "loading"
    ELSE IF Truthy(app.schemaError) THEN "error"
    ELSE IF app.schemaLoaded THEN "success"
    ELSE "none"

EvalFrame ==
    UNCHANGED <<formVars, refVars, keyVars, fetchVars, storeVars, renderVars, submitVars,
                genVars, heapVars, switchVars>>

\* loadDynamicSchema(workflowId) up to its first request
LoadDynamicSchema ==
    \E workflowId \in WorkflowIds :
        /\ schemaLoad.pc = "idle"
        /\ schemaLoad.n < MaxSchemaLoads
        /\ evaluation' = [evaluation EXCEPT !.loadingSchema = TRUE, !.schemaError = Null]
        /\ schemaLoad' = [pc |-> "fetching", n |-> schemaLoad.n + 1,
                          workflowName |-> IF Truthy(workflowId) THEN workflowId.s
                                           ELSE "bike-insights",
                          endpoint |-> 1, lastError |-> Null, answers |-> <<>>,
                          threw |-> FALSE, fallback |-> FALSE]
        /\ EvalFrame

\* the endpoint being asked answers, and loadDynamicSchema runs to its next request
\* or to its end
EndpointAnswer ==
    \E answer \in EndpointAnswers :
        /\ schemaLoad.pc = "fetching"
        /\ LET heard == [schemaLoad EXCEPT !.answers = Append(@, answer)]
               done == [heard EXCEPT !.pc = "idle"]
           IN  CASE answer = "schema" ->
                        /\ evaluation' = SchemaProcessed(evaluation, schemaLoad.workflowName)
                        /\ schemaLoad' = done
                 [] answer = "notASchema" ->
                        /\ evaluation' = CatchAndFallBack(evaluation,
                                             "Invalid schema structure received from API")
                        /\ schemaLoad' = [done EXCEPT !.fallback = TRUE]
                 [] OTHER ->
                        IF schemaLoad.endpoint < SchemaEndpoints
                        THEN /\ schemaLoad' = [heard EXCEPT
                                    !.endpoint = @ + 1,
                                    !.lastError = Str(ErrorMessage(answer))]
                             /\ UNCHANGED evaluation
                        ELSE /\ evaluation' = CatchAndFallBack(evaluation, ErrorMessage(answer))
                             /\ schemaLoad' = [done EXCEPT
                                    !.lastError = Str(ErrorMessage(answer)),
                                    !.fallback = TRUE]
        /\ EvalFrame

EvalNext == LoadDynamicSchema \/ EndpointAnswer

EvalSpec == Init /\ [][EvalNext]_vars

AllEndpointsFailed ==
    /\ schemaLoad.pc = "idle"
    /\ Len(schemaLoad.answers) = SchemaEndpoints
    /\ \A i \in DOMAIN schemaLoad.answers : schemaLoad.answers[i] \in {"httpError", "timeout"}

\* C30: when every schema endpoint fails or times out, loadDynamicSchema ends
\* without throwing, with the bundled sample schema loaded (schemaLoaded true),
\* loadingSchema false, and the failure still recorded, so that getSchemaStatus
\* reports the error state and not success.
C30_FallbackKeepsTheFailureOnRecord ==
    AllEndpointsFailed =>
        /\ ~schemaLoad.threw
        /\ schemaLoad.fallback
        /\ evaluation.schemaLoaded
        /\ ~evaluation.loadingSchema
        /\ getSchemaStatus(evaluation) = "error"

=============================================================================
